---- MODULE Spec2Model ----
(***************************************************************************)
(* Model of the RPN calculator firmware: the fixed-capacity stack          *)
(* (stack.rs), the fixed-point decimal type (decfix.rs), the textbox       *)
(* (textbox.rs) and the Entry-mode main loop (main.rs).                    *)
(*                                                                         *)
(* TLC's integers are 32 bits wide, the program's are 64 and 128 bits      *)
(* wide, so an integer of the program is a sign and a sequence of limbs    *)
(* in base 10^4, least significant first, and the checked operations of    *)
(* the program compare the exact result with the limits of the width.      *)
(***************************************************************************)
EXTENDS Integers, Sequences, FiniteSets, TLC

(***************************************************************************)
(* Program constants.                                                      *)
(***************************************************************************)
MAX_STACK_SIZE == 256
MAX_MULTIPOP_SIZE == 16
MAX_VEC_PUSH_SIZE == 16
TEXT_BUFFER_SIZE == 32
PARSING_BUFFER_SIZE == 16
DECFIX_EXPONENT == -9
DEFAULT_EXPONENT == -9

(***************************************************************************)
(* Bounds of the model.                                                    *)
(***************************************************************************)
\* calls made on the stack by a client (SpecStack)
MaxCalls == 5
\* bytes received by the main loop (Spec)
MaxEvents == 5

(***************************************************************************)
(* Exact integers: [neg, mag], mag the limbs in base 10^4, least           *)
(* significant first, without leading zero limbs; zero is                  *)
(* [neg |-> FALSE, mag |-> <<>>].  The operators avoid deep recursion:     *)
(* carries and borrows are found by look-ahead.                            *)
(***************************************************************************)
Base == 10 * 1000

Max(S) == CHOOSE x \in S : \A y \in S : y <= x

Limb(m, i) == IF i >= 1 /\ i <= Len(m) THEN m[i] ELSE 0

\* the limbs f[1..n] without the leading zero limbs
MagNorm(f, n) ==
    LET nz == {i \in 1..n : f[i] # 0}
    IN  IF nz = {} THEN <<>> ELSE [i \in 1..Max(nz) |-> f[i]]

\* -1, 0, 1 as a < b, a = b, a > b
MagCmp(a, b) ==
    IF Len(a) < Len(b) THEN -1
    ELSE IF Len(a) > Len(b) THEN 1
    ELSE LET d == {i \in 1..Len(a) : a[i] # b[i]}
         IN  IF d = {} THEN 0
             ELSE IF a[Max(d)] < b[Max(d)] THEN -1 ELSE 1

MagAdd(a, b) ==
    LET n == (IF Len(a) > Len(b) THEN Len(a) ELSE Len(b)) + 1
        s == [i \in 1..n |-> Limb(a, i) + Limb(b, i)]
        c == [i \in 1..n |->
                IF \E j \in 1..(i - 1) :
                      /\ s[j] >= Base
                      /\ \A k \in (j + 1)..(i - 1) : s[k] = Base - 1
                THEN 1 ELSE 0]
    IN  MagNorm([i \in 1..n |-> (s[i] + c[i]) % Base], n)

\* a - b, for a >= b
MagSub(a, b) ==
    LET n == Len(a)
        c == [i \in 1..n |->
                IF \E j \in 1..(i - 1) :
                      /\ a[j] < Limb(b, j)
                      /\ \A k \in (j + 1)..(i - 1) : a[k] = Limb(b, k)
                THEN 1 ELSE 0]
    IN  MagNorm([i \in 1..n |-> (a[i] - Limb(b, i) - c[i] + Base) % Base], n)

RECURSIVE ColSum(_, _, _, _)
\* sum of a[i] * b[k + 1 - i] over i in lo..Len(a)
ColSum(a, b, k, i) ==
    IF i > Len(a) THEN 0
    ELSE a[i] * Limb(b, k + 1 - i) + ColSum(a, b, k, i + 1)

MagMul(a, b) ==
    IF a = <<>> \/ b = <<>> THEN <<>>
    ELSE
    LET n   == Len(a) + Len(b) + 1
        col == [k \in 1..n |-> ColSum(a, b, k, 1)]
        lo  == [k \in 1..n |-> col[k] % Base]
        mid == [k \in 1..n |-> IF k = 1 THEN 0 ELSE (col[k - 1] \div Base) % Base]
        hi  == [k \in 1..n |-> IF k <= 2 THEN 0 ELSE col[k - 2] \div (Base * Base)]
    IN  MagAdd(MagAdd(MagNorm(lo, n), MagNorm(mid, n)), MagNorm(hi, n))

\* a times the limb d
MagMulSmall(a, d) ==
    IF d = 0 \/ a = <<>> THEN <<>>
    ELSE LET n  == Len(a) + 1
             lo == [k \in 1..n |-> (Limb(a, k) * d) % Base]
             hi == [k \in 1..n |-> IF k = 1 THEN 0 ELSE (a[k - 1] * d) \div Base]
         IN  MagAdd(MagNorm(lo, n), MagNorm(hi, n))

\* the quotient limb of r1 by b, for r1 < b * Base, and b of one limb or with
\* a top limb of at least Base / 2: the estimate from the top limbs is at
\* most 2 too large
QDigit(r1, b) ==
    LET n   == Len(b)
        top == Limb(r1, n + 1) * Base + Limb(r1, n)
        est == IF top \div b[n] >= Base THEN Base - 1 ELSE top \div b[n]
        fits(q) == q = 0 \/ MagCmp(MagMulSmall(b, q), r1) <= 0
    IN  IF n = 1 \/ fits(est) THEN est
        ELSE IF fits(est - 1) THEN est - 1
        ELSE est - 2

RECURSIVE MagDivAt(_, _, _, _, _)
\* long division from limb a[i] down, with the remainder r < b and the
\* quotient limbs qs so far; b as QDigit wants it
MagDivAt(a, b, i, r, qs) ==
    IF i = 0 THEN [q |-> qs, r |-> r]
    ELSE LET step(r1, q) ==
                 IF q = 0 THEN MagDivAt(a, b, i - 1, r1, <<0>> \o qs)
                 ELSE MagDivAt(a, b, i - 1, MagSub(r1, MagMulSmall(b, q)),
                               <<q>> \o qs)
             shifted(r1) ==
                 step(r1, IF MagCmp(r1, b) < 0 THEN 0 ELSE QDigit(r1, b))
         IN  shifted(MagNorm(<<a[i]>> \o r, Len(r) + 1))

MkInt(neg, mag) == [neg |-> neg /\ mag # <<>>, mag |-> mag]
IntZero == MkInt(FALSE, <<>>)

\* the integer with the decimal digits ds, most significant first
IntOf(neg, ds) ==
    LET n == Len(ds)
        d(i) == IF i >= 1 /\ i <= n THEN ds[n + 1 - i] ELSE 0
        m == (n + 3) \div 4
    IN  MkInt(neg, MagNorm([k \in 1..m |->
                  d(4 * k - 3) + 10 * d(4 * k - 2)
                  + 100 * d(4 * k - 1) + 1000 * d(4 * k)], m))

\* the decimal digits of a magnitude, most significant first ("0" is <<>>)
MagDigits(mag) ==
    LET n == 4 * Len(mag)
        p == <<1, 10, 100, 1000>>
        all == [i \in 1..n |->
                  (mag[((n - i) \div 4) + 1] \div p[((n - i) % 4) + 1]) % 10]
        nz == {i \in 1..n : all[i] # 0}
    IN  IF nz = {} THEN <<>>
        ELSE LET f == CHOOSE x \in nz : \A y \in nz : x <= y
             IN  [i \in 1..(n - f + 1) |-> all[f + i - 1]]

\* long division of a by b, for a >= b: the top Len(b) - 1 limbs of a are the
\* first remainder
MagLongDiv(a, b) ==
    LET normal(res) == [q |-> MagNorm(res.q, Len(res.q)), r |-> res.r]
    IN  normal(MagDivAt(a, b, Len(a) - Len(b) + 1,
                        SubSeq(a, Len(a) - Len(b) + 2, Len(a)), <<>>))

\* the digits <<1, 0, .., 0>> of a power of ten
IsPow10(ds) == ds # <<>> /\ ds[1] = 1 /\ \A i \in 2..Len(ds) : ds[i] = 0

\* by a power of ten the decimal digits are split; otherwise both are
\* scaled by d so that the divisor's top limb is at least Base / 2
MagDivMod(a, b) ==
    IF MagCmp(a, b) < 0 THEN [q |-> <<>>, r |-> a]
    ELSE IF IsPow10(MagDigits(b))
    THEN LET split(ds, k) ==
                 [q |-> IntOf(FALSE, SubSeq(ds, 1, Len(ds) - k)).mag,
                  r |-> IntOf(FALSE, SubSeq(ds, Len(ds) - k + 1, Len(ds))).mag]
         IN  split(MagDigits(a), Len(MagDigits(b)) - 1)
    ELSE IF Len(b) = 1 THEN MagLongDiv(a, b)
    ELSE LET d == Base \div (b[Len(b)] + 1)
             unscaled(res) ==
                 [q |-> res.q,
                  r |-> IF res.r = <<>> THEN <<>>
                        ELSE MagLongDiv(res.r, <<d>>).q]
             scaled(a1, b1) ==
                 IF Len(a1) < Len(b1) THEN [q |-> <<>>, r |-> a]
                 ELSE unscaled(MagLongDiv(a1, b1))
         IN  scaled(MagMulSmall(a, d), MagMulSmall(b, d))

IntNeg(x) == MkInt(~x.neg, x.mag)
IntAbs(x) == MkInt(FALSE, x.mag)

IntAdd(x, y) ==
    IF x.neg = y.neg THEN MkInt(x.neg, MagAdd(x.mag, y.mag))
    ELSE IF MagCmp(x.mag, y.mag) >= 0 THEN MkInt(x.neg, MagSub(x.mag, y.mag))
    ELSE MkInt(y.neg, MagSub(y.mag, x.mag))

IntSub(x, y) == IntAdd(x, IntNeg(y))
IntMul(x, y) == MkInt(x.neg # y.neg, MagMul(x.mag, y.mag))
\* the quotient truncated toward zero, as Rust's / on integers; y # 0
IntDiv(x, y) == MkInt(x.neg # y.neg, MagDivMod(x.mag, y.mag).q)
\* the remainder has the sign of the dividend, as Rust's %; y # 0
IntRem(x, y) == MkInt(x.neg, MagDivMod(x.mag, y.mag).r)

IntLe(x, y) ==
    IF x.neg /\ ~y.neg THEN TRUE
    ELSE IF ~x.neg /\ y.neg THEN FALSE
    ELSE IF x.neg THEN MagCmp(x.mag, y.mag) >= 0
    ELSE MagCmp(x.mag, y.mag) <= 0

\* 10^n
Pow10(n) == IntOf(FALSE, <<1>> \o [i \in 1..n |-> 0])

I64_MAX == IntOf(FALSE, <<9,2,2,3,3,7,2,0,3,6,8,5,4,7,7,5,8,0,7>>)
I64_MIN == IntOf(TRUE, <<9,2,2,3,3,7,2,0,3,6,8,5,4,7,7,5,8,0,8>>)
I128_MAX == IntOf(FALSE, <<1,7,0,1,4,1,1,8,3,4,6,0,4,6,9,2,3,1,7,3,
                          1,6,8,7,3,0,3,7,1,5,8,8,4,1,0,5,7,2,7>>)
I128_MIN == IntOf(TRUE, <<1,7,0,1,4,1,1,8,3,4,6,0,4,6,9,2,3,1,7,3,
                         1,6,8,7,3,0,3,7,1,5,8,8,4,1,0,5,7,2,8>>)

FitsI64(x) == IntLe(I64_MIN, x) /\ IntLe(x, I64_MAX)
FitsI128(x) == IntLe(I128_MIN, x) /\ IntLe(x, I128_MAX)

(***************************************************************************)
(* Option<T> is a sequence of at most one element; Result<T, CustomError>  *)
(* is [ok, val] or [ok, err], err the name of the CustomError variant.     *)
(***************************************************************************)
None == <<>>
Some(v) == <<v>>
Ok(v) == [ok |-> TRUE, val |-> v]
Err(e) == [ok |-> FALSE, err |-> e]
\* Ok(()) of a Result<(), CustomError>
Unit == <<>>

(***************************************************************************)
(* custom_error.rs: the variants the operations return.                    *)
(***************************************************************************)
CustomError ==
    {"MathOverflow", "ParseIntError(Empty)", "ParseIntError(InvalidDigit)",
     "ParseIntError(PosOverflow)", "ParseIntError(NegOverflow)",
     "ParseIntError(Zero)", "FormatError", "BadInput", "CapacityError",
     "Unimplemented", "Impossible", "Cancelled", "Other"}

(***************************************************************************)
(* Text: a str is a sequence of one-character strings.  The textbox and    *)
(* the parser only ever see ASCII here (main.rs appends digits, '.' and    *)
(* '-'), so bytes and characters coincide.                                 *)
(***************************************************************************)
DigitChars == <<"0", "1", "2", "3", "4", "5", "6", "7", "8", "9">>
IsDigit(c) == \E d \in 1..10 : DigitChars[d] = c
DigitVal(c) == (CHOOSE d \in 1..10 : DigitChars[d] = c) - 1

\* <i64 as FromStr>::from_str of the standard library, as decfix.rs uses it:
\* a lone sign is InvalidDigit; the digits are taken left to right, the
\* first offending one decides between InvalidDigit and the overflow kinds.
str_parse_i64(s) ==
    IF s = <<>> THEN Err("ParseIntError(Empty)")
    ELSE IF s = <<"+">> \/ s = <<"-">> THEN Err("ParseIntError(InvalidDigit)")
    ELSE
    LET neg    == s[1] = "-"
        digits == IF s[1] \in {"+", "-"} THEN SubSeq(s, 2, Len(s)) ELSE s
        bad    == {i \in 1..Len(digits) : ~IsDigit(digits[i])}
        n      == IF bad = {} THEN Len(digits)
                  ELSE (CHOOSE i \in bad : \A j \in bad : i <= j) - 1
        v      == IntOf(neg, [i \in 1..n |-> DigitVal(digits[i])])
    IN  IF ~FitsI64(v)
        THEN Err(IF neg THEN "ParseIntError(NegOverflow)"
                        ELSE "ParseIntError(PosOverflow)")
        ELSE IF bad # {} THEN Err("ParseIntError(InvalidDigit)")
        ELSE Ok(v)

(***************************************************************************)
(* decfix.rs: DecimalFixed { value: i64, exponent: i8 }.                   *)
(***************************************************************************)
new_prescaled(value, exponent) == [value |-> value, exponent |-> exponent]

DecimalFixed_default == new_prescaled(IntZero, DEFAULT_EXPONENT)

is_zero(self) == self.value = IntZero
is_negative(self) == self.value.neg

\* a panic of the firmware (an expect/unwrap, an overflow check of a debug
\* build, a heapless collect beyond capacity): no value is returned
Panic == [ok |-> FALSE, err |-> "panic"]

\* i64::checked_*(..).ok_or(CE::MathOverflow) of the exact result r
checked(r) == IF FitsI64(r) THEN Ok(r) ELSE Err("MathOverflow")
checked_add(x, y) == checked(IntAdd(x, y))
checked_sub(x, y) == checked(IntSub(x, y))
checked_mul(x, y) == checked(IntMul(x, y))

\* Ok(Self { value: r?, exponent })
prescaled_result(r, exponent) ==
    IF r.ok THEN Ok(new_prescaled(r.val, exponent)) ELSE r

\* the fractional digits cut or zero-padded to minus_exp characters
processed_frac(frac_part, minus_exp) ==
    IF Len(frac_part) >= minus_exp THEN SubSeq(frac_part, 1, minus_exp)
    ELSE frac_part \o [i \in 1..(minus_exp - Len(frac_part)) |-> "0"]

parse_static_exp(s, exp) ==
    IF exp >= 0 THEN Err("Unimplemented")
    ELSE IF s = <<>> THEN Err("BadInput")
    ELSE
    LET minus_exp  == -exp
        dots       == {i \in 1..Len(s) : s[i] = "."}
        dot        == IF dots = {} THEN Len(s) + 1
                      ELSE CHOOSE i \in dots : \A j \in dots : i <= j
        frac_part  == SubSeq(s, dot + 1, Len(s))
        \* value: the scaled whole part, frac: the parsed fractional part
        with_frac(value, frac) ==
            IF ~frac.ok THEN frac
            ELSE prescaled_result(IF ~value.neg
                                  THEN checked_add(value, frac.val)
                                  ELSE checked_sub(value, frac.val), exp)
        with_value(value) ==
            IF ~value.ok THEN value
            ELSE IF frac_part = <<>>
            THEN Ok(new_prescaled(value.val, exp))
            ELSE IF Len(frac_part) < minus_exp /\ minus_exp > PARSING_BUFFER_SIZE
            THEN Err("CapacityError")
            ELSE with_frac(value.val,
                           str_parse_i64(processed_frac(frac_part, minus_exp)))
        with_whole(whole_part) ==
            IF ~whole_part.ok THEN whole_part
            \* 10_i64.pow(minus_exp) overflows from 10^19 on
            ELSE IF minus_exp > 18 THEN Panic
            ELSE with_value(checked_mul(whole_part.val, Pow10(minus_exp)))
    IN  with_whole(str_parse_i64(SubSeq(s, 1, dot - 1)))

\* negate_in_place without the test for i64::MIN: -i64::MIN wraps to itself
negate_in_place_wrapping(self) ==
    IF is_zero(self) THEN Ok(self)
    ELSE IF self.value = I64_MIN THEN Ok(self)
    ELSE Ok(new_prescaled(IntNeg(self.value), self.exponent))

negate_in_place(self) ==
    IF is_zero(self) THEN Ok(self)
    ELSE IF self.value = I64_MIN THEN Err("MathOverflow")
    ELSE Ok(new_prescaled(IntNeg(self.value), self.exponent))

negate(self) == negate_in_place(self)

priv_add(self, other) ==
    IF self.exponent = other.exponent
    THEN prescaled_result(checked_add(self.value, other.value), self.exponent)
    ELSE IF self.exponent > other.exponent
    THEN \* 10_i64.pow overflows from 10^19 on
         IF self.exponent - other.exponent > 18 THEN Panic
         ELSE
         LET adjusted(adj) ==
                 IF ~adj.ok THEN adj
                 ELSE prescaled_result(checked_add(adj.val, other.value),
                                       other.exponent)
         IN  adjusted(checked_mul(self.value,
                                  Pow10(self.exponent - other.exponent)))
    \* (self.exponent - other.exponent) as u32 of a negative difference is
    \* at least 2^32 - 255: 10_i64.pow of it overflows
    ELSE Panic

addition(self, other) == priv_add(self, other)

subtract(self, other) ==
    LET negated(neg) == IF neg.ok THEN priv_add(self, neg.val) ELSE neg
    IN  negated(negate_in_place(other))

AbsExp(e) == IF e < 0 THEN -e ELSE e

\* i64::try_from of an i128 that was itself checked to fit
try_from_i128(end_value, exponent) ==
    IF ~FitsI128(end_value) \/ ~FitsI64(end_value)
    THEN Err("MathOverflow")
    ELSE Ok(new_prescaled(end_value, exponent))

\* priv_mul without the test of the exponents
priv_mul_any_exponent(self, other, keep_exponent) ==
    LET scale_factor == Pow10(AbsExp(self.exponent))
        end_value(scaled_end_value) ==
            IF self.exponent >= 0
            THEN IntMul(scaled_end_value, scale_factor)
            ELSE IntDiv(scaled_end_value, scale_factor)
    IN  try_from_i128(end_value(IntMul(self.value, other.value)),
                      self.exponent)

priv_mul(self, other, keep_exponent) ==
    IF ~keep_exponent
    THEN LET e == self.exponent + other.exponent
             product(v) ==
                 IF ~v.ok THEN v
                 ELSE IF e < -128 \/ e > 127 THEN Err("MathOverflow")
                 ELSE Ok(new_prescaled(v.val, e))
         IN  product(checked_mul(self.value, other.value))
    ELSE IF self.exponent # other.exponent THEN Err("Unimplemented")
    \* 10_i64.pow(self.exponent.abs()) overflows from 10^19 on
    ELSE IF AbsExp(self.exponent) > 18 THEN Panic
    ELSE
    LET scale_factor == Pow10(AbsExp(self.exponent))
        end_value(scaled_end_value) ==
            IF self.exponent >= 0
            THEN IntMul(scaled_end_value, scale_factor)
            ELSE IntDiv(scaled_end_value, scale_factor)
    IN  try_from_i128(end_value(IntMul(self.value, other.value)),
                      self.exponent)

\* priv_div with the test of the exponents ahead of the test for zero
priv_div_exponents_first(self, other, keep_exponent) ==
    IF keep_exponent /\ self.exponent # other.exponent
    THEN Err("Unimplemented")
    ELSE IF other.value = IntZero THEN Err("BadInput")
    ELSE IF ~keep_exponent
    THEN LET e == self.exponent - other.exponent
         IN  IF self.value = I64_MIN /\ other.value = IntOf(TRUE, <<1>>)
             THEN Panic
             ELSE IF e < -128 \/ e > 127 THEN Err("MathOverflow")
             ELSE Ok(new_prescaled(IntDiv(self.value, other.value), e))
    ELSE IF AbsExp(self.exponent) > 18 THEN Panic
    ELSE
    LET scale_factor == Pow10(AbsExp(self.exponent))
        quotient(scaled_self_value) ==
            IF ~FitsI128(scaled_self_value) THEN Err("MathOverflow")
            ELSE try_from_i128(IntDiv(scaled_self_value, other.value),
                               self.exponent)
    IN  quotient(IF self.exponent >= 0
                 THEN IntDiv(self.value, scale_factor)
                 ELSE IntMul(self.value, scale_factor))

priv_div(self, other, keep_exponent) ==
    IF other.value = IntZero THEN Err("BadInput")
    ELSE IF ~keep_exponent
    THEN LET e == self.exponent - other.exponent
         IN  \* i64::MIN / -1 overflows: the division panics
             IF self.value = I64_MIN /\ other.value = IntOf(TRUE, <<1>>)
             THEN Panic
             ELSE IF e < -128 \/ e > 127 THEN Err("MathOverflow")
             ELSE Ok(new_prescaled(IntDiv(self.value, other.value), e))
    ELSE IF self.exponent # other.exponent THEN Err("Unimplemented")
    ELSE IF AbsExp(self.exponent) > 18 THEN Panic
    ELSE
    LET scale_factor == Pow10(AbsExp(self.exponent))
        quotient(scaled_self_value) ==
            IF ~FitsI128(scaled_self_value) THEN Err("MathOverflow")
            ELSE try_from_i128(IntDiv(scaled_self_value, other.value),
                               self.exponent)
    IN  quotient(IF self.exponent >= 0
                 THEN IntDiv(self.value, scale_factor)
                 ELSE IntMul(self.value, scale_factor))

multiply(self, other) == priv_mul(self, other, TRUE)
multiply_no_keep_exp(self, other) == priv_mul(self, other, FALSE)
divide(self, other) == priv_div(self, other, TRUE)
divide_no_keep_exp(self, other) == priv_div(self, other, FALSE)

(***************************************************************************)
(* Arithmetic whose overflow depends on the build: with overflow checks    *)
(* (a debug build) it panics, without them (a release build) it wraps      *)
(* around in two's complement.  checks says which build it is.             *)
(***************************************************************************)
TwoPow64 == IntOf(FALSE, <<1,8,4,4,6,7,4,4,0,7,3,7,0,9,5,5,1,6,1,6>>)

\* the i64 that the low 64 bits of x are
wrapping_i64(x) ==
    LET low(r) == IF r.neg THEN IntAdd(r, TwoPow64) ELSE r
        signed(u) == IF IntLe(u, I64_MAX) THEN u ELSE IntSub(u, TwoPow64)
    IN  signed(low(IntRem(x, TwoPow64)))

\* 10_i64.pow(n as u32) for an n: i8 or an n: usize that came from one; a
\* negative n is a number of at least 2^32 - 128 after the cast, and 10^n
\* is a multiple of 2^64 from n = 64 on
pow10_i64(n, checks) ==
    IF n >= 0 /\ n <= 18 THEN Ok(Pow10(n))
    ELSE IF checks THEN Panic
    ELSE IF n < 0 \/ n >= 64 THEN Ok(IntZero)
    ELSE Ok(wrapping_i64(Pow10(n)))

\* priv_add of a build without overflow checks
priv_add_release(self, other) ==
    LET adjusted_self(adj) ==
            IF ~adj.ok THEN adj
            ELSE prescaled_result(checked_add(adj.val, other.value),
                                  other.exponent)
        adjusted_other(adj) ==
            IF ~adj.ok THEN adj
            ELSE prescaled_result(checked_add(self.value, adj.val),
                                  self.exponent)
        pow == pow10_i64(self.exponent - other.exponent, FALSE).val
    IN  IF self.exponent = other.exponent
        THEN prescaled_result(checked_add(self.value, other.value),
                              self.exponent)
        ELSE IF self.exponent > other.exponent
        THEN adjusted_self(checked_mul(self.value, pow))
        ELSE adjusted_other(checked_mul(other.value, pow))

\* subtract of a build without overflow checks
subtract_release(self, other) ==
    LET negated(neg) == IF neg.ok THEN priv_add_release(self, neg.val) ELSE neg
    IN  negated(negate_in_place(other))

\* self.exponent.abs() as u32 of a build without overflow checks, as the
\* argument of pow10_i64: the absolute value of -128 wraps to -128
abs_release(e) == IF e = -128 THEN e ELSE AbsExp(e)

\* priv_mul of a build without overflow checks: 10_i64.pow wraps, and a
\* division by a scale factor of zero panics in every build
priv_mul_release(self, other, keep_exponent) ==
    IF ~keep_exponent \/ self.exponent # other.exponent
    THEN priv_mul(self, other, keep_exponent)
    ELSE
    LET scaled(scaled_end_value, scale_factor) ==
            IF self.exponent >= 0
            THEN try_from_i128(IntMul(scaled_end_value, scale_factor),
                               self.exponent)
            ELSE IF scale_factor = IntZero THEN Panic
            ELSE try_from_i128(IntDiv(scaled_end_value, scale_factor),
                               self.exponent)
    IN  scaled(IntMul(self.value, other.value),
               pow10_i64(abs_release(self.exponent), FALSE).val)

\* priv_div of a build without overflow checks
priv_div_release(self, other, keep_exponent) ==
    IF other.value = IntZero \/ ~keep_exponent
           \/ self.exponent # other.exponent
    THEN priv_div(self, other, keep_exponent)
    ELSE
    LET quotient(scaled_self_value) ==
            IF ~FitsI128(scaled_self_value) THEN Err("MathOverflow")
            ELSE try_from_i128(IntDiv(scaled_self_value, other.value),
                               self.exponent)
        scaled(scale_factor) ==
            IF self.exponent < 0
            THEN quotient(IntMul(self.value, scale_factor))
            ELSE IF scale_factor = IntZero THEN Panic
            ELSE quotient(IntDiv(self.value, scale_factor))
    IN  scaled(pow10_i64(abs_release(self.exponent), FALSE).val)

(***************************************************************************)
(* decfix.rs: impl Display for DecimalFixed.  The text is a sequence of    *)
(* characters; fmt returns Ok(text) or panics.                             *)
(***************************************************************************)
\* Display of an integer
int_to_string(x) ==
    IF x = IntZero THEN <<"0">>
    ELSE (IF x.neg THEN <<"-">> ELSE <<>>)
         \o [i \in 1..Len(MagDigits(x.mag)) |->
                DigitChars[MagDigits(x.mag)[i] + 1]]

\* {:0>width$}: the fill character '0' in front, up to the width
zero_padded(t, width) ==
    IF Len(t) >= width THEN t
    ELSE [i \in 1..(width - Len(t)) |-> "0"] \o t

\* i64::abs: the overflow of i64::MIN.abs() panics or wraps around
i64_abs(x, checks) ==
    IF x # I64_MIN THEN Ok(IntAbs(x))
    ELSE IF checks THEN Panic
    ELSE Ok(I64_MIN)

Ten == IntOf(FALSE, <<1, 0>>)

\* while fractional_part % 10 == 0 { fractional_part /= 10; width -= 1; }
RECURSIVE strip_zeroes(_, _)
strip_zeroes(fractional_part, width) ==
    IF IntRem(fractional_part, Ten) = IntZero
    THEN strip_zeroes(IntDiv(fractional_part, Ten), width - 1)
    ELSE [fractional_part |-> fractional_part, width |-> width]

fmt(self, checks) ==
    IF self.value = IntZero THEN Ok(<<"0">>)
    ELSE IF self.exponent = 0 THEN Ok(int_to_string(self.value))
    ELSE IF self.exponent > 0
    THEN Ok(int_to_string(self.value) \o zero_padded(<<>>, self.exponent))
    ELSE
    LET sign == IF self.value.neg THEN <<"-">> ELSE <<>>
        fraction(st) ==
            <<".">> \o zero_padded(int_to_string(st.fractional_part), st.width)
        parts(value, pow) ==
            IF IntRem(value, pow) = IntZero
            THEN Ok(sign \o int_to_string(IntDiv(value, pow)))
            ELSE Ok(sign \o int_to_string(IntDiv(value, pow))
                    \o fraction(strip_zeroes(IntRem(value, pow),
                                             -self.exponent)))
        with(value, pow) ==
            IF ~value.ok \/ ~pow.ok THEN Panic
            \* the division by a power that wrapped around to zero
            ELSE IF pow.val = IntZero THEN Panic
            ELSE parts(value.val, pow.val)
    IN  \* -self.exponent overflows for i8::MIN
        IF self.exponent = -128 /\ checks THEN Panic
        ELSE with(i64_abs(self.value, checks),
                  pow10_i64(-self.exponent, checks))

(***************************************************************************)
(* stack.rs: CustomStack<T> over heapless::Vec<T, MAX_STACK_SIZE>.  An     *)
(* operation maps the vector to [data, ret, panic]: the vector afterwards, *)
(* the value returned, and whether the call panicked instead of returning. *)
(***************************************************************************)
Returns(d, r) == [data |-> d, ret |-> r, panic |-> FALSE]
Panics(d) == [data |-> d, ret |-> Panic, panic |-> TRUE]

saturating_sub(a, b) == IF a > b THEN a - b ELSE 0

\* heapless Vec::push: a full vector hands the element back as Err(value)
vec_push(d, value) ==
    IF Len(d) >= MAX_STACK_SIZE THEN Returns(d, [ok |-> FALSE, err |-> value])
    ELSE Returns(Append(d, value), Ok(Unit))

\* CustomStackBuilder::build
build == <<>>
\* CustomStackBuilder::build_debug: MAX_STACK_SIZE default values
build_debug == [i \in 1..MAX_STACK_SIZE |-> DecimalFixed_default]

\* push without the check of the capacity
push_unchecked(d, value) == Returns(Append(d, value), Ok(Unit))

push(d, value) ==
    LET r == vec_push(d, value)
    IN  IF ~r.ret.ok THEN Returns(r.data, Err("CapacityError"))
        ELSE Returns(r.data, Ok(Unit))

push_vec(d, value) ==
    IF Len(d) + Len(value) > MAX_STACK_SIZE
    THEN Returns(d, Err("CapacityError"))
    ELSE Returns(d \o value, Ok(Unit))

\* push_slice that copies the elements that still fit before it fails
push_slice_partial(d, slice) ==
    IF Len(d) + Len(slice) > MAX_STACK_SIZE
    THEN Returns(d \o SubSeq(slice, 1, MAX_STACK_SIZE - Len(d)),
                 Err("CapacityError"))
    ELSE Returns(d \o slice, Ok(Unit))

\* heapless Vec::extend_from_slice checks the room before it copies
push_slice(d, slice) ==
    IF Len(d) + Len(slice) > MAX_STACK_SIZE
    THEN Returns(d, Err("CapacityError"))
    ELSE Returns(d \o slice, Ok(Unit))

\* pop that takes the oldest element instead of the newest
pop_front(d) ==
    IF d = <<>> THEN Returns(d, None)
    ELSE Returns(Tail(d), Some(Head(d)))

pop(d) ==
    IF d = <<>> THEN Returns(d, None)
    ELSE Returns(SubSeq(d, 1, Len(d) - 1), Some(d[Len(d)]))

\* multipop that collects the drained elements from the top downwards
multipop_reversed(d, n) ==
    IF d = <<>> THEN Returns(d, None)
    ELSE LET start == saturating_sub(Len(d), n)
         IN  IF Len(d) - start > MAX_MULTIPOP_SIZE
             THEN Panics(SubSeq(d, 1, start))
             ELSE Returns(SubSeq(d, 1, start),
                          Some([i \in 1..(Len(d) - start) |-> d[Len(d) + 1 - i]]))

\* drain(start..) yields the elements from index start upwards and leaves
\* the vector with the first start elements; collecting more than
\* MAX_MULTIPOP_SIZE of them into the heapless Vec panics (from_iter)
multipop(d, n) ==
    IF d = <<>> THEN Returns(d, None)
    ELSE LET start == saturating_sub(Len(d), n)
         IN  IF Len(d) - start > MAX_MULTIPOP_SIZE
             THEN Panics(SubSeq(d, 1, start))
             ELSE Returns(SubSeq(d, 1, start),
                          Some(SubSeq(d, start + 1, Len(d))))

peek(d) == Returns(d, IF d = <<>> THEN None ELSE Some(d[Len(d)]))

multipeek(d, n) ==
    IF d = <<>> THEN Returns(d, None)
    ELSE IF n > Len(d) THEN Returns(d, Some(d))
    ELSE Returns(d, Some(SubSeq(d, saturating_sub(Len(d), n) + 1, Len(d))))

clear(d) == Returns(<<>>, Unit)

(***************************************************************************)
(* textbox.rs: CustomTextbox over heapless::String<TEXT_BUFFER_SIZE>.      *)
(* The text is the sequence of its UTF-8 bytes.  An ASCII character is     *)
(* one byte, written as the character; the bytes of the other characters   *)
(* are written in hexadecimal.  A char is named by the character or, if    *)
(* it is not ASCII, by its code point: "U+00E9" takes two bytes, "U+20AC"  *)
(* three.  An operation maps the text to [text, ret].                      *)
(***************************************************************************)
TextRet(t, r) == [text |-> t, ret |-> r]

\* char::encode_utf8
encode_utf8(c) ==
    CASE c = "U+00E9" -> <<"C3", "A9">>
      [] c = "U+20AC" -> <<"E2", "82", "AC">>
      [] OTHER -> <<c>>
\* the char that the bytes bs encode
decode_utf8(bs) ==
    CASE bs = <<"C3", "A9">> -> "U+00E9"
      [] bs = <<"E2", "82", "AC">> -> "U+20AC"
      [] OTHER -> bs[1]
\* the bytes 0x80..0xBF, which continue a character
IsContinuation(b) == b \in {"A9", "82", "AC"}
\* the number of bytes of the character that the byte b starts
len_utf8(b) == CASE b = "C3" -> 2 [] b = "E2" -> 3 [] OTHER -> 1

is_ascii(t) == \A i \in 1..Len(t) : ~IsContinuation(t[i]) /\ len_utf8(t[i]) = 1
\* index counts from 0, as in the source
is_char_boundary(t, index) ==
    \/ index = 0
    \/ index = Len(t)
    \/ index < Len(t) /\ ~IsContinuation(t[index + 1])

\* heapless::String::push_str: all of the string or nothing
append_str(t, string) ==
    IF Len(t) + Len(string) > TEXT_BUFFER_SIZE
    THEN TextRet(t, Err("CapacityError"))
    ELSE TextRet(t \o string, Ok(Unit))

\* a push that tests the capacity for one byte, whatever the char is
append_char_one_byte(t, c) ==
    IF Len(t) + 1 > TEXT_BUFFER_SIZE
    THEN TextRet(t, Err("CapacityError"))
    ELSE TextRet(t \o encode_utf8(c), Ok(Unit))

\* heapless::String::push: all bytes of the char or nothing
append_char(t, c) ==
    IF Len(t) + Len(encode_utf8(c)) > TEXT_BUFFER_SIZE
    THEN TextRet(t, Err("CapacityError"))
    ELSE TextRet(t \o encode_utf8(c), Ok(Unit))

\* heapless::String::pop: the last character, all its bytes
text_pop(t) ==
    IF t = <<>> THEN TextRet(t, None)
    ELSE LET start == CHOOSE i \in 1..Len(t) :
                          /\ ~IsContinuation(t[i])
                          /\ \A j \in (i + 1)..Len(t) : IsContinuation(t[j])
         IN  TextRet(SubSeq(t, 1, start - 1),
                     Some(decode_utf8(SubSeq(t, start, Len(t)))))

\* `self.text.pop().expect(..)`, count times
RECURSIVE pop_times(_, _)
pop_times(t, count) ==
    IF count = 0 THEN TextRet(t, Ok(Unit))
    ELSE IF t = <<>> THEN TextRet(t, Panic)
    ELSE pop_times(text_pop(t).text, count - 1)

\* self.text.len() is the number of bytes
backspace(t, count) ==
    IF Len(t) < count THEN TextRet(t, Err("BadInput"))
    ELSE IF is_ascii(t) THEN TextRet(SubSeq(t, 1, Len(t) - count), Ok(Unit))
    ELSE pop_times(t, count)

contains(t, pat) == \E i \in 1..Len(t) : t[i] = pat
starts_with(t, pat) == t # <<>> /\ t[1] = pat

\* insert_at that puts the char behind the byte at index, if there is one
insert_at_behind(t, index, c) ==
    IF index > Len(t) THEN TextRet(t, Err("BadInput"))
    ELSE IF Len(t) + Len(encode_utf8(c)) > TEXT_BUFFER_SIZE
    THEN TextRet(t, Err("CapacityError"))
    ELSE TextRet(SubSeq(t, 1, index + 1) \o encode_utf8(c)
                     \o SubSeq(t, index + 2, Len(t)),
                 Ok(Unit))

\* index counts the bytes from 0, as in the source
insert_at(t, index, c) ==
    IF index > Len(t) THEN TextRet(t, Err("BadInput"))
    ELSE IF ~is_char_boundary(t, index) THEN TextRet(t, Err("BadInput"))
    ELSE IF Len(t) + Len(encode_utf8(c)) > TEXT_BUFFER_SIZE
    THEN TextRet(t, Err("CapacityError"))
    ELSE TextRet(SubSeq(t, 1, index) \o encode_utf8(c)
                     \o SubSeq(t, index + 1, Len(t)),
                 Ok(Unit))

\* heapless::String::remove takes out the character that starts at index
remove_at(t, index) ==
    IF index >= Len(t) THEN TextRet(t, Err("BadInput"))
    ELSE IF ~is_char_boundary(t, index) THEN TextRet(t, Err("BadInput"))
    ELSE LET next == index + len_utf8(t[index + 1])
         IN  TextRet(SubSeq(t, 1, index) \o SubSeq(t, next + 1, Len(t)),
                     Ok(decode_utf8(SubSeq(t, index + 1, next))))

\* CustomTextbox::clear
text_clear(t) == TextRet(<<>>, Unit)

(***************************************************************************)
(* main.rs: parse_textbox.  [data, text, ret]; on Ok the stack and the     *)
(* textbox have been drawn.                                                *)
(***************************************************************************)
\* parse_textbox that leaves the parsed text in the textbox
parse_textbox_keeps_text(t, d) ==
    IF t = <<>> THEN [data |-> d, text |-> t, ret |-> Err("BadInput")]
    ELSE LET pushed_num(p) ==
                 IF ~p.ret.ok
                 THEN [data |-> p.data, text |-> t, ret |-> p.ret]
                 ELSE [data |-> p.data, text |-> t, ret |-> Ok(Unit)]
             parsed(num) ==
                 IF ~num.ok THEN [data |-> d, text |-> t, ret |-> num]
                 ELSE pushed_num(push(d, num.val))
         IN  parsed(parse_static_exp(t, DECFIX_EXPONENT))

parse_textbox(t, d) ==
    IF t = <<>> THEN [data |-> d, text |-> t, ret |-> Err("BadInput")]
    ELSE LET pushed_num(p) ==
                 IF ~p.ret.ok
                 THEN [data |-> p.data, text |-> t, ret |-> p.ret]
                 ELSE [data |-> p.data, text |-> <<>>, ret |-> Ok(Unit)]
             parsed(num) ==
                 IF ~num.ok THEN [data |-> d, text |-> t, ret |-> num]
                 ELSE pushed_num(push(d, num.val))
         IN  parsed(parse_static_exp(t, DECFIX_EXPONENT))

\* the errors of parse_textbox that the Enter and operator arms recover from
RecoverableParseError(e) ==
    e \in {"CapacityError", "MathOverflow",
           "ParseIntError(PosOverflow)", "ParseIntError(NegOverflow)"}

(***************************************************************************)
(* main.rs: the arms of the main loop's match on the received character.   *)
(* An arm maps the textbox t, the stack d and the error icon ic to         *)
(* [data, text, icon, status].  icon is the 10x10 error image of           *)
(* disp_error in the top right corner of the frame buffer: disp_error      *)
(* draws it, CustomStack::draw clears the area it lies in.  status is      *)
(* "running", or "grave" once disp_grave_error has been entered (it never  *)
(* returns: it resets the microcontroller), or "panicked".                 *)
(* The display itself is taken to work: draw and flush return Ok.          *)
(***************************************************************************)
St(d, t, ic, st) == [data |-> d, text |-> t, icon |-> ic, status |-> st]

\* the match on the error of parse_textbox, in the Enter and operator arms
parse_error_arm(r, ic) ==
    IF r.ret.err = "panic" THEN St(r.data, r.text, ic, "panicked")
    ELSE IF RecoverableParseError(r.ret.err)
    THEN St(r.data, r.text, TRUE, "running")
    ELSE St(r.data, r.text, ic, "grave")

enter_arm(t, d, ic) ==
    IF t = <<>> \/ t = <<"-">> THEN St(d, t, ic, "running")
    ELSE LET parsed(r) ==
                 IF r.ret.ok THEN St(r.data, r.text, FALSE, "running")
                 ELSE parse_error_arm(r, ic)
         IN  parsed(parse_textbox(t, d))

backspace_arm(t, d, ic) ==
    IF t = <<>> THEN St(d, t, ic, "running")
    ELSE LET r == backspace(t, 1)
         IN  IF ~r.ret.ok THEN St(d, r.text, ic, "grave")
             ELSE St(d, r.text, ic, "running")

\* the '.' arm without the test for a decimal point already in the textbox
decimal_point_arm_unchecked(t, d, ic) ==
    IF t = <<>>
    THEN St(d, <<"0", ".">>, ic, "running")
    ELSE LET r == append_char(t, ".")
         IN  IF ~r.ret.ok THEN St(d, r.text, TRUE, "running")
             ELSE St(d, r.text, ic, "running")

decimal_point_arm(t, d, ic) ==
    IF t = <<>>
    THEN LET r == append_str(t, <<"0", ".">>)
         IN  IF ~r.ret.ok THEN St(d, r.text, ic, "grave")
             ELSE St(d, r.text, ic, "running")
    ELSE IF contains(t, ".") THEN St(d, t, ic, "running")
    ELSE LET r == append_char(t, ".")
         IN  IF ~r.ret.ok THEN St(d, r.text, TRUE, "running")
             ELSE St(d, r.text, ic, "running")

\* the 'n' arm that never removes a leading '-'
negate_arm_prepends(t, d, ic) ==
    LET r == insert_at(t, 0, "-")
    IN  IF ~r.ret.ok THEN St(d, r.text, TRUE, "running")
        ELSE St(d, r.text, ic, "running")

negate_arm(t, d, ic) ==
    IF t = <<>>
    THEN LET r == append_char(t, "-")
         IN  IF ~r.ret.ok THEN St(d, r.text, ic, "grave")
             ELSE St(d, r.text, ic, "running")
    ELSE IF starts_with(t, "-")
    THEN LET r == remove_at(t, 0)
         IN  IF ~r.ret.ok \/ r.ret.val # "-" THEN St(d, r.text, ic, "grave")
             ELSE St(d, r.text, ic, "running")
    ELSE IF contains(t, "-") THEN St(d, t, ic, "grave")
    ELSE LET r == insert_at(t, 0, "-")
         IN  IF ~r.ret.ok THEN St(d, r.text, TRUE, "running")
             ELSE St(d, r.text, ic, "running")

digit_arm(c, t, d, ic) ==
    LET r == append_char(t, c)
    IN  IF ~r.ret.ok THEN St(d, r.text, TRUE, "running")
        ELSE St(d, r.text, ic, "running")

\* a OP b of the operator arm: a was pushed earlier and is popped later
\* the operation with its operands exchanged: b OP a
apply_operator_swapped(c, a, b) ==
    CASE c = "+" -> addition(b, a)
      [] c = "-" -> subtract(b, a)
      [] c = "*" -> multiply(b, a)
      [] c = "/" -> divide(b, a)

apply_operator(c, a, b) ==
    CASE c = "+" -> addition(a, b)
      [] c = "-" -> subtract(a, b)
      [] c = "*" -> multiply(a, b)
      [] c = "/" -> divide(a, b)

\* the operator arm if a failed operation left its operands on the stack
operands_arm_restoring(c, t, d, ic) ==
    LET computed(rest, c_res) ==
            IF ~c_res.ok
            THEN IF c_res.err = "panic" THEN St(rest, t, ic, "panicked")
                 ELSE St(d, t, TRUE, "running")
            ELSE LET p == push(rest, c_res.val)
                 IN  IF p.ret.ok THEN St(p.data, t, FALSE, "running")
                     ELSE St(p.data, t, ic, "grave")
        popped_both(b_res, a_res) ==
            IF a_res.ret # None /\ b_res.ret # None
            THEN computed(a_res.data,
                          apply_operator(c, a_res.ret[1], b_res.ret[1]))
            ELSE IF a_res.ret = None THEN St(a_res.data, t, TRUE, "running")
            ELSE St(a_res.data, t, ic, "grave")
        popped_b(b_res) == popped_both(b_res, pop(b_res.data))
    IN  popped_b(pop(d))

\* the part of the operator arm after the textbox has been dealt with
operands_arm(c, t, d, ic) ==
    LET pushed_result(p) ==
            IF p.ret.ok THEN St(p.data, t, FALSE, "running")
            ELSE St(p.data, t, ic, "grave")
        \* rest: the stack after both pops, c_res: the result of the operation
        computed(rest, c_res) ==
            IF ~c_res.ok
            THEN IF c_res.err = "panic" THEN St(rest, t, ic, "panicked")
                 ELSE St(rest, t, TRUE, "running")
            ELSE pushed_result(push(rest, c_res.val))
        popped_both(b_res, a_res) ==
            IF a_res.ret # None /\ b_res.ret # None
            THEN computed(a_res.data,
                          apply_operator(c, a_res.ret[1], b_res.ret[1]))
            ELSE IF a_res.ret = None
            \* (None, Some(_)) | (None, None): the stack is drawn as it is now
            THEN St(a_res.data, t, TRUE, "running")
            \* (Some(_), None)
            ELSE St(a_res.data, t, ic, "grave")
        popped_b(b_res) == popped_both(b_res, pop(b_res.data))
    IN  popped_b(pop(d))

operator_arm(c, t, d, ic) ==
    IF t # <<>>
    THEN LET parsed(r) ==
                 IF ~r.ret.ok THEN parse_error_arm(r, ic)
                 ELSE operands_arm(c, r.text, r.data, FALSE)
         IN  parsed(parse_textbox(t, d))
    ELSE operands_arm(c, t, d, ic)

\* Ctrl-R and the F5 escape sequence: both are drawn again
redraw_arm_keeps_icon(t, d, ic) == St(d, t, ic, "running")
redraw_arm(t, d, ic) == St(d, t, FALSE, "running")

\* the escape arm on the up to six bytes that follow ESC; the byte 0x14,
\* which starts handle_commands, is the action EnterCommand
escape_arm(buf, t, d, ic) ==
    IF Len(buf) >= 4 /\ SubSeq(buf, 1, 4) = <<"[", "1", "5", "~">>
    THEN redraw_arm(t, d, ic)
    ELSE St(d, t, ic, "running")

unhandled_arm(t, d, ic) == St(d, t, ic, "running")

(***************************************************************************)
(* The SSD1306 in buffered graphics mode: a draw writes into the frame     *)
(* buffer, flush sends the whole frame buffer to the screen.  Of the frame *)
(* buffer and of the screen the model keeps [stack, text, image]: the rows *)
(* of the stack area, the characters of the textbox's line, and the name   *)
(* of the full-screen image drawn over them, if any.  A row is None        *)
(* (blank) or Some(x), x the element whose Display output is written on    *)
(* it; Screen gives the characters.  A display is [frame, shown, panic];   *)
(* panic: a Display::fmt inside a draw has panicked.  The error image in   *)
(* the corner is icon: disp_error flushes it as soon as it is drawn.       *)
(***************************************************************************)
DISPLAY_HEIGHT == 64
FONT_HEIGHT == 12
PIXELS_REMOVED == 2

Blank == [stack |-> <<>>, text |-> <<>>, image |-> ""]

\* Ssd1306::flush
flush(disp) == [disp EXCEPT !.shown = disp.frame]

\* 10_i64.pow(n as u32) overflows: pow10_i64(n, TRUE) is Panic
pow10_overflows(n) == n < 0 \/ n > 18

\* <DecimalFixed as Display>::fmt panics on self, in a build with overflow
\* checks: the conditions under which fmt(self, TRUE) is Panic
fmt_panics(self) ==
    /\ self.value # IntZero
    /\ self.exponent < 0
    /\ \/ self.exponent = -128
       \/ self.value = I64_MIN
       \/ pow10_overflows(-self.exponent)

\* CustomStack::draw; the elements are printed with overflow checks on, as
\* the arms compute with them; the rows are drawn from the last one up
stack_draw(disp, d, fl) ==
    LET flushed(done) == IF fl THEN flush(done) ELSE done
        \* the row k is the first one whose Display::fmt panics
        until(text_vec, k) ==
            [disp EXCEPT
                !.frame.stack = [i \in 1..Len(text_vec) |->
                                   IF i > k THEN Some(text_vec[i]) ELSE None],
                !.panic = TRUE]
        rows(text_vec) ==
            IF \E i \in 1..Len(text_vec) : fmt_panics(text_vec[i])
            THEN until(text_vec,
                       CHOOSE i \in 1..Len(text_vec) :
                           /\ fmt_panics(text_vec[i])
                           /\ \A j \in (i + 1)..Len(text_vec) :
                                  ~fmt_panics(text_vec[j]))
            ELSE flushed([disp EXCEPT
                             !.frame.stack = [i \in 1..Len(text_vec) |->
                                                Some(text_vec[i])]])
        lines_of(text_height) ==
            rows(multipeek(d, IF Len(d) < (DISPLAY_HEIGHT \div text_height) - 1
                              THEN Len(d)
                              ELSE (DISPLAY_HEIGHT \div text_height) - 1).ret[1])
    IN  IF disp.panic THEN disp
        ELSE IF d = <<>> THEN flushed([disp EXCEPT !.frame.stack = <<>>])
        ELSE lines_of(FONT_HEIGHT - PIXELS_REMOVED)

\* CustomTextbox::draw
textbox_draw(disp, t, fl) ==
    IF disp.panic THEN disp
    ELSE IF fl THEN flush([disp EXCEPT !.frame.text = t])
    ELSE [disp EXCEPT !.frame.text = t]

\* disp_error: the error image is drawn and the frame buffer flushed
disp_error(disp) == IF disp.panic THEN disp ELSE flush(disp)

\* disp_grave_error: the full-screen image is drawn and flushed
disp_grave_error(disp) ==
    IF disp.panic THEN disp
    ELSE flush([disp EXCEPT !.frame.image = "calc_grave_err.bmp"])

\* Ssd1306::init: the frame buffer and the screen are cleared
init(disp) ==
    [frame |-> Blank, shown |-> Blank, panic |-> FALSE, inverted |-> FALSE]

\* Ssd1306::set_invert: a command of its own, not a part of the frame buffer
set_invert(disp, invert) ==
    IF disp.panic THEN disp ELSE [disp EXCEPT !.inverted = invert]

\* the calls that an arm makes on the display, in the order it makes them
StackDraw(d, fl) == [op |-> "stack.draw", what |-> d, flush |-> fl]
TextboxDraw(t, fl) == [op |-> "textbox.draw", what |-> t, flush |-> fl]
DispError == [op |-> "disp_error", what |-> <<>>, flush |-> TRUE]
DispGraveError == [op |-> "disp_grave_error", what |-> <<>>, flush |-> TRUE]
DispInit == [op |-> "init", what |-> <<>>, flush |-> FALSE]
SetInvert(invert) == [op |-> "set_invert", what |-> invert, flush |-> FALSE]

RECURSIVE Render(_, _)
Render(disp, calls) ==
    IF calls = <<>> THEN disp
    ELSE LET made(o) ==
                 CASE o.op = "stack.draw" -> stack_draw(disp, o.what, o.flush)
                   [] o.op = "textbox.draw" ->
                          textbox_draw(disp, o.what, o.flush)
                   [] o.op = "disp_error" -> disp_error(disp)
                   [] o.op = "disp_grave_error" -> disp_grave_error(disp)
                   [] o.op = "init" -> init(disp)
                   [] o.op = "set_invert" -> set_invert(disp, o.what)
         IN  Render(made(Head(calls)), Tail(calls))

\* main before the loop: the display is initialised, stack.draw(false) and
\* textbox.draw(true)
main_draws(d, t) == <<DispInit, StackDraw(d, FALSE), TextboxDraw(t, TRUE)>>

\* with d and t, the display of a loop that holds them
Drawn(d, t) == Render(init(Blank), main_draws(d, t))

(***************************************************************************)
(* main.rs: what the arms draw.  An arm maps the textbox t and the stack d *)
(* to the calls it makes on the display.                                   *)
(***************************************************************************)
\* the draws of parse_textbox, r being what it returned
parse_textbox_draws(r, fl) ==
    IF r.ret.ok THEN <<StackDraw(r.data, FALSE), TextboxDraw(r.text, fl)>>
    ELSE <<>>

\* the draws of the match on the error of parse_textbox
parse_error_draws(r) ==
    IF r.ret.err = "panic" THEN <<>>
    ELSE IF RecoverableParseError(r.ret.err)
    THEN <<StackDraw(r.data, FALSE), TextboxDraw(r.text, TRUE), DispError>>
    ELSE <<DispGraveError>>

\* the Enter arm with a parse_textbox that is told not to flush
enter_draws_unflushed(t, d) ==
    IF t = <<>> \/ t = <<"-">> THEN <<>>
    ELSE LET parsed(r) ==
                 IF r.ret.ok THEN parse_textbox_draws(r, FALSE)
                 ELSE parse_error_draws(r)
         IN  parsed(parse_textbox(t, d))

enter_draws(t, d) ==
    IF t = <<>> \/ t = <<"-">> THEN <<>>
    ELSE LET parsed(r) ==
                 IF r.ret.ok THEN parse_textbox_draws(r, TRUE)
                 ELSE parse_error_draws(r)
         IN  parsed(parse_textbox(t, d))

backspace_draws(t, d) ==
    IF t = <<>> THEN <<>>
    ELSE LET done(r) == IF ~r.ret.ok THEN <<DispGraveError>>
                        ELSE <<TextboxDraw(r.text, TRUE)>>
         IN  done(backspace(t, 1))

decimal_point_draws(t, d) ==
    LET started(r) == IF ~r.ret.ok THEN <<DispGraveError>>
                      ELSE <<TextboxDraw(r.text, TRUE)>>
        appended(r) == IF ~r.ret.ok THEN <<DispError>>
                       ELSE <<TextboxDraw(r.text, TRUE)>>
    IN  IF t = <<>> THEN started(append_str(t, <<"0", ".">>))
        ELSE IF contains(t, ".") THEN <<>>
        ELSE appended(append_char(t, "."))

negate_draws(t, d) ==
    LET started(r) == IF ~r.ret.ok THEN <<DispGraveError>>
                      ELSE <<TextboxDraw(r.text, TRUE)>>
        removed(r) == IF ~r.ret.ok \/ r.ret.val # "-" THEN <<DispGraveError>>
                      ELSE <<TextboxDraw(r.text, TRUE)>>
        inserted(r) == IF ~r.ret.ok
                       THEN <<DispError, TextboxDraw(r.text, TRUE)>>
                       ELSE <<TextboxDraw(r.text, TRUE)>>
    IN  IF t = <<>> THEN started(append_char(t, "-"))
        ELSE IF starts_with(t, "-") THEN removed(remove_at(t, 0))
        ELSE IF contains(t, "-") THEN <<DispGraveError>>
        ELSE inserted(insert_at(t, 0, "-"))

digit_draws(c, t, d) ==
    LET appended(r) == IF ~r.ret.ok THEN <<DispError>>
                       ELSE <<TextboxDraw(r.text, TRUE)>>
    IN  appended(append_char(t, c))

\* the part of the operator arm after the textbox t has been dealt with; s
\* is the state the arm ends in: on each of its failure paths the arm draws
\* the stack and calls disp_error, after the push of the result it draws
\* the stack and the textbox
operands_draws(t, s) ==
    IF s.status = "panicked" THEN <<>>
    ELSE IF s.status = "grave" THEN <<DispGraveError>>
    ELSE IF s.icon THEN <<StackDraw(s.data, FALSE), DispError>>
    ELSE <<StackDraw(s.data, FALSE), TextboxDraw(t, TRUE)>>

\* the operator arm, which ends in the state s; r is what its parse_textbox
\* returned
operator_draws(c, t, d, s) ==
    LET dealt(r) ==
            IF ~r.ret.ok THEN parse_error_draws(r)
            ELSE parse_textbox_draws(r, FALSE) \o operands_draws(r.text, s)
    IN  IF t = <<>> THEN operands_draws(t, s)
        ELSE dealt(parse_textbox(t, d))

\* Ctrl-R and the F5 escape sequence: both components are drawn and flushed
redraw_draws(t, d) == <<StackDraw(d, TRUE), TextboxDraw(t, TRUE)>>

escape_draws(buf, t, d) ==
    IF Len(buf) >= 4 /\ SubSeq(buf, 1, 4) = <<"[", "1", "5", "~">>
    THEN redraw_draws(t, d)
    ELSE <<>>

unhandled_draws(t, d) == <<>>

(***************************************************************************)
(* command_mode.rs: handle_commands.  The command line is the textbox;     *)
(* a command maps it, the stack d, the brightness br and the error icon ic *)
(* to [data, brightness, icon, ret, status].  status is "running", or      *)
(* "reset" after sys_reset, "halted" in halt and at a breakpoint without a *)
(* debugger, "usb_boot" after reset_to_usb_boot, or "panicked".            *)
(***************************************************************************)
U8_MAX == 255

\* <u8 as FromStr>::from_str of the standard library: the digits are taken
\* left to right, the first offending one decides between InvalidDigit and
\* PosOverflow; acc is the value of the digits taken so far
RECURSIVE u8_digits(_, _)
u8_digits(s, acc) ==
    IF s = <<>> THEN Ok(acc)
    ELSE IF ~IsDigit(Head(s)) THEN Err("ParseIntError(InvalidDigit)")
    ELSE IF acc * 10 + DigitVal(Head(s)) > U8_MAX
    THEN Err("ParseIntError(PosOverflow)")
    ELSE u8_digits(Tail(s), acc * 10 + DigitVal(Head(s)))

str_parse_u8(s) ==
    IF s = <<>> THEN Err("ParseIntError(Empty)")
    ELSE IF s = <<"+">> THEN Err("ParseIntError(InvalidDigit)")
    ELSE IF s[1] = "+" THEN u8_digits(Tail(s), 0)
    ELSE u8_digits(s, 0)

\* str::starts_with
str_starts_with(s, pat) ==
    Len(s) >= Len(pat) /\ SubSeq(s, 1, Len(pat)) = pat

\* the split at the first space instead of the last
split_once(s) ==
    LET i == CHOOSE k \in 1..Len(s) :
                 s[k] = " " /\ \A j \in 1..(k - 1) : s[j] # " "
    IN  [left |-> SubSeq(s, 1, i - 1), right |-> SubSeq(s, i + 1, Len(s))]

\* str::rsplit_once(" ") of a string that holds a space: the parts before
\* and after its last space
rsplit_once(s) ==
    LET i == CHOOSE k \in 1..Len(s) :
                 s[k] = " " /\ \A j \in (k + 1)..Len(s) : s[j] # " "
    IN  [left |-> SubSeq(s, 1, i - 1), right |-> SubSeq(s, i + 1, Len(s))]

\* CustomStack::push_exact_iterator: all of the values or none
push_exact_iterator(d, values) ==
    IF Len(d) + Len(values) > MAX_STACK_SIZE
    THEN Returns(d, Err("CapacityError"))
    ELSE Returns(d \o values, Ok(Unit))

CmdRet(d, br, ic, r, st) ==
    [data |-> d, brightness |-> br, icon |-> ic, ret |-> r, status |-> st]

BrightnessLevels == <<"DIMMEST", "DIM", "NORMAL", "BRIGHT", "BRIGHTEST">>

\* "brt N" | "brightness N"
brightness_cmd(command, d, br, ic) ==
    LET split == rsplit_once(command)
        num   == str_parse_u8(split.right)
    IN  IF split.left # <<"b", "r", "t">>
           /\ split.left # <<"b", "r", "i", "g", "h", "t", "n", "e", "s", "s">>
        THEN CmdRet(d, br, ic, Err("BadInput"), "running")
        ELSE IF ~num.ok THEN CmdRet(d, br, ic, num, "running")
        ELSE IF num.val \in 1..Len(BrightnessLevels)
        THEN CmdRet(d, BrightnessLevels[num.val], ic, Ok(Unit), "running")
        ELSE CmdRet(d, br, ic, Err("BadInput"), "running")

\* "c" | "cls" | "clear"
clear_cmd(d, br, ic) ==
    IF d = <<>> THEN CmdRet(d, br, ic, Ok(Unit), "running")
    ELSE CmdRet(clear(d).data, br, FALSE, Ok(Unit), "running")

\* "d" | "dup" | "duplicate"
dup_cmd(d, br, ic) ==
    LET popped_val == pop(d)
        after(r) == IF ~r.ret.ok THEN CmdRet(r.data, br, ic, r.ret, "running")
                    ELSE CmdRet(r.data, br, FALSE, Ok(Unit), "running")
    IN  IF popped_val.ret = None
        THEN CmdRet(d, br, ic, Err("BadInput"), "running")
        ELSE after(push_exact_iterator(popped_val.data,
                       <<popped_val.ret[1], popped_val.ret[1]>>))

\* "drop N" without the comparison of N with the length of the stack
drop_n_cmd_unchecked(command, d, br, ic) ==
    LET split == rsplit_once(command)
        count == str_parse_u8(split.right)
    IN  IF split.left # <<"d", "r", "o", "p">>
        THEN CmdRet(d, br, ic, Err("BadInput"), "running")
        ELSE IF ~count.ok THEN CmdRet(d, br, ic, count, "running")
        ELSE CmdRet(multipop(d, count.val).data, br, FALSE, Ok(Unit),
                    "running")

\* "drop N"
drop_n_cmd(command, d, br, ic) ==
    LET split == rsplit_once(command)
        count == str_parse_u8(split.right)
        after(r) == IF r.panic THEN CmdRet(r.data, br, ic, Panic, "panicked")
                    ELSE CmdRet(r.data, br, FALSE, Ok(Unit), "running")
    IN  IF split.left # <<"d", "r", "o", "p">>
        THEN CmdRet(d, br, ic, Err("BadInput"), "running")
        ELSE IF ~count.ok THEN CmdRet(d, br, ic, count, "running")
        ELSE IF count.val = 0 \/ count.val > Len(d)
        THEN CmdRet(d, br, ic, Err("BadInput"), "running")
        ELSE after(multipop(d, count.val))

\* "drop"
drop_cmd(d, br, ic) ==
    LET r == pop(d)
    IN  IF r.ret = None THEN CmdRet(d, br, ic, Err("BadInput"), "running")
        ELSE CmdRet(r.data, br, FALSE, Ok(Unit), "running")

\* swap that pushes the two elements back as they were
swap_cmd_restores(d, br, ic) ==
    IF Len(d) < 2 THEN CmdRet(d, br, ic, Err("BadInput"), "running")
    ELSE CmdRet(d, br, FALSE, Ok(Unit), "running")

\* "s" | "swap"
swap_cmd(d, br, ic) ==
    LET option_b == pop(d)
        option_a == pop(option_b.data)
        both(r1, r2) ==
            IF ~r1.ret.ok \/ ~r2.ret.ok
            THEN CmdRet(r2.data, br, ic, Err("Impossible"), "running")
            ELSE CmdRet(r2.data, br, FALSE, Ok(Unit), "running")
        one(r) ==
            IF ~r.ret.ok THEN CmdRet(r.data, br, ic, Err("Impossible"), "running")
            ELSE CmdRet(r.data, br, ic, Err("BadInput"), "running")
    IN  IF option_a.ret # None /\ option_b.ret # None
        THEN both(push(option_a.data, option_b.ret[1]),
                  push(push(option_a.data, option_b.ret[1]).data,
                       option_a.ret[1]))
        ELSE IF option_a.ret = None /\ option_b.ret # None
        THEN one(push(option_a.data, option_b.ret[1]))
        ELSE IF option_a.ret = None /\ option_b.ret = None
        THEN CmdRet(option_a.data, br, ic, Err("BadInput"), "running")
        ELSE CmdRet(option_a.data, br, ic, Err("Impossible"), "running")

\* get_text_str that leaves out the spaces around the text
get_text_str_trimmed(t) ==
    LET keep == {i \in 1..Len(t) : t[i] # " "}
    IN  IF keep = {} THEN <<>>
        ELSE SubSeq(t, CHOOSE i \in keep : \A j \in keep : i <= j,
                       CHOOSE i \in keep : \A j \in keep : j <= i)

\* CustomTextbox::get_text_str
get_text_str(t) == t

\* the match on the confirmed command
run_command(command, d, br, ic) ==
    IF command = <<"r", "e", "s", "e", "t">>
    THEN CmdRet(d, br, ic, Unit, "reset")
    ELSE IF command = <<"h", "a", "l", "t">>
    THEN CmdRet(d, br, ic, Unit, "halted")
    ELSE IF command \in {<<"b">>, <<"b", "k", "p", "t">>,
                         <<"b", "r", "e", "a", "k", "p", "o", "i", "n", "t">>}
    THEN CmdRet(d, br, ic, Ok(Unit), "running")
    ELSE IF command \in {<<"b", " ", "a", "l", "t">>,
                         <<"b", "k", "p", "t", " ", "a", "l", "t">>,
                         <<"b", "r", "e", "a", "k", "p", "o", "i", "n", "t",
                           " ", "a", "l", "t">>}
    THEN CmdRet(d, br, ic, Unit, "halted")
    ELSE IF command \in {<<"b", "o", "o", "t", " ", "u", "s", "b">>,
                         <<"u", "s", "b", " ", "b", "o", "o", "t">>,
                         <<"u", "s", "b">>}
    THEN CmdRet(d, br, ic, Unit, "usb_boot")
    ELSE IF command \in {<<"r">>, <<"f", "5">>,
                         <<"r", "e", "f", "r", "e", "s", "h">>,
                         <<"r", "e", "l", "o", "a", "d">>,
                         <<"r", "e", "d", "r", "a", "w">>}
    THEN CmdRet(d, br, FALSE, Ok(Unit), "running")
    ELSE IF \/ str_starts_with(command, <<"b", "r", "t", " ">>)
            \/ str_starts_with(command, <<"b", "r", "i", "g", "h", "t", "n",
                                          "e", "s", "s", " ">>)
    THEN brightness_cmd(command, d, br, ic)
    ELSE IF command \in {<<"c">>, <<"c", "l", "s">>,
                         <<"c", "l", "e", "a", "r">>}
    THEN clear_cmd(d, br, ic)
    ELSE IF command \in {<<"d">>, <<"d", "u", "p">>,
                         <<"d", "u", "p", "l", "i", "c", "a", "t", "e">>}
    THEN dup_cmd(d, br, ic)
    ELSE IF str_starts_with(command, <<"d", "r", "o", "p", " ">>)
    THEN drop_n_cmd(command, d, br, ic)
    ELSE IF command = <<"d", "r", "o", "p">>
    THEN drop_cmd(d, br, ic)
    ELSE IF command \in {<<"s">>, <<"s", "w", "a", "p">>}
    THEN swap_cmd(d, br, ic)
    ELSE IF command = <<>>
    THEN CmdRet(d, br, ic, Err("Cancelled"), "running")
    ELSE CmdRet(d, br, ic, Err("BadInput"), "running")

\* the accepted characters of a command: 'a'..='z' | '0'..='9' | ' '
LowerChars ==
    {"a", "b", "c", "d", "e", "f", "g", "h", "i", "j", "k", "l", "m", "n",
     "o", "p", "q", "r", "s", "t", "u", "v", "w", "x", "y", "z"}

accepted(c) == c \in LowerChars \/ IsDigit(c) \/ c = " "

\* what handle_commands leaves: [data, text, brightness, icon, ret, status]
Left(t, r) ==
    [data |-> r.data, text |-> t, brightness |-> r.brightness,
     icon |-> r.icon, ret |-> r.ret, status |-> r.status]

\* handle_commands once Enter has been received: the command is run; after
\* a command that returns Ok the textbox is cleared
confirm(t, d, br, ic) ==
    LET done(r) == IF r.status = "running" /\ r.ret.ok THEN Left(<<>>, r)
                   ELSE Left(t, r)
    IN  done(run_command(get_text_str(t), d, br, ic))

\* a return from the loop that also draws the error icon
abort_with_icon(e, t, d, br, ic) ==
    Left(t, CmdRet(d, br, TRUE, Err(e), "running"))

\* handle_commands returns Err(e) from its loop, with the textbox as t
abort(e, t, d, br, ic) == Left(t, CmdRet(d, br, ic, Err(e), "running"))

RecoverableCommandError ==
    {"BadInput", "CapacityError", "ParseIntError(Empty)",
     "ParseIntError(InvalidDigit)", "ParseIntError(PosOverflow)",
     "ParseIntError(NegOverflow)"}

\* a match that takes every error for a recoverable one
command_result_lenient(h) ==
    IF h.status # "running" \/ h.ret.ok \/ h.ret.err = "Cancelled" THEN h
    ELSE [h EXCEPT !.icon = TRUE]

\* main's match on the result of handle_commands; h is what it left
command_result(h) ==
    IF h.status # "running" \/ h.ret.ok \/ h.ret.err = "Cancelled" THEN h
    ELSE IF h.ret.err \in RecoverableCommandError
    THEN [h EXCEPT !.icon = TRUE]
    ELSE [h EXCEPT !.status = "grave"]

(***************************************************************************)
(* command_mode.rs and main.rs: what Command mode draws.                   *)
(***************************************************************************)
\* the draws of the match on the confirmed command; r is what it returned
run_command_draws(command, d, r) ==
    IF command = <<"h", "a", "l", "t">> THEN <<DispGraveError>>
    ELSE IF command \in {<<"r">>, <<"f", "5">>,
                         <<"r", "e", "f", "r", "e", "s", "h">>,
                         <<"r", "e", "l", "o", "a", "d">>,
                         <<"r", "e", "d", "r", "a", "w">>}
    THEN <<StackDraw(d, TRUE)>>
    ELSE IF command \in {<<"c">>, <<"c", "l", "s">>,
                         <<"c", "l", "e", "a", "r">>}
    THEN IF d = <<>> THEN <<>> ELSE <<StackDraw(r.data, FALSE)>>
    ELSE IF \/ command \in {<<"d">>, <<"d", "u", "p">>,
                            <<"d", "u", "p", "l", "i", "c", "a", "t", "e">>}
            \/ str_starts_with(command, <<"d", "r", "o", "p", " ">>)
            \/ command = <<"d", "r", "o", "p">>
            \/ command \in {<<"s">>, <<"s", "w", "a", "p">>}
    \* stack.draw(false) is the last statement of the path that returns Ok
    THEN IF r.status = "running" /\ r.ret.ok
         THEN <<StackDraw(r.data, FALSE)>>
         ELSE <<>>
    ELSE IF command = <<>>
    THEN <<TextboxDraw(command, TRUE), SetInvert(FALSE)>>
    ELSE <<>>

\* handle_commands once Enter has been received; r is what the command
\* returned
confirm_draws(t, d, r) ==
    IF r.status = "running" /\ r.ret.ok
    THEN run_command_draws(get_text_str(t), d, r)
             \o <<SetInvert(FALSE), TextboxDraw(<<>>, TRUE)>>
    ELSE run_command_draws(get_text_str(t), d, r)

\* main's match that leaves the inversion to handle_commands
command_result_draws_no_invert(h) ==
    IF h.status # "running" \/ h.ret.ok THEN <<>>
    ELSE IF h.ret.err = "Cancelled" THEN <<TextboxDraw(h.text, TRUE)>>
    ELSE IF h.ret.err \in RecoverableCommandError
    THEN <<StackDraw(h.data, FALSE), TextboxDraw(h.text, FALSE), DispError>>
    ELSE <<DispGraveError>>

\* main's match on the result of handle_commands; h is what it left
command_result_draws(h) ==
    IF h.status # "running" \/ h.ret.ok THEN <<>>
    ELSE IF h.ret.err = "Cancelled" THEN <<TextboxDraw(h.text, TRUE)>>
    ELSE IF h.ret.err \in RecoverableCommandError
    THEN <<SetInvert(FALSE), StackDraw(h.data, FALSE),
           TextboxDraw(h.text, FALSE), DispError>>
    ELSE <<SetInvert(FALSE), DispGraveError>>

(***************************************************************************)
(* State.                                                                  *)
(*   data      CustomStack::data, bottom first                             *)
(*   text      CustomTextbox::text                                         *)
(*   icon      the error icon is in the frame buffer                       *)
(*   status    "running", "grave" or "panicked"                            *)
(*   char_buf  the character the main loop took last ("" before the first) *)
(*   esc_buf   the bytes the escape arm read after it                      *)
(*   call, ret the last call a client made on the stack, and its result    *)
(*   pushed, popped, tracking                                              *)
(*             the values pushed onto an empty stack since it was last     *)
(*             empty, and what the pops that followed them returned        *)
(*   steps     calls, events or commands so far                            *)
(*   mode      "command" while handle_commands runs, else "entry"          *)
(*   brightness                                                            *)
(*             the brightness the display was last set to                  *)
(*   input, pos                                                            *)
(*             the bytes of the command line that the UART delivers to     *)
(*             handle_commands, and how many of them it has read           *)
(*   fifo, handled                                                         *)
(*             the bytes in the receive FIFO of the UART, and the log of   *)
(*             the bytes taken from it                                     *)
(*   frame, shown                                                          *)
(*             the frame buffer of the display, and what was last flushed  *)
(*             to its screen                                               *)
(*   inverted  the display shows its pixels inverted (set_invert)          *)
(***************************************************************************)
VARIABLES data, text, icon, status, char_buf, esc_buf, call, ret,
          pushed, popped, tracking, before, steps,
          mode, brightness, input, pos,
          fifo, handled, frame, shown, inverted

vars == <<data, text, icon, status, char_buf, esc_buf, call, ret,
          pushed, popped, tracking, before, steps,
          mode, brightness, input, pos,
          fifo, handled, frame, shown, inverted>>

\* before is a history variable: the stack, the textbox, the error icon
\* and the brightness as the last operation (SpecStack), the last arm
\* (Spec) or the last step of Command mode (SpecCmd) found them
Now ==
    [data |-> data, text |-> text, icon |-> icon, brightness |-> brightness]

\* what the stack's client (SpecStack) and the main loop (Spec) leave alone
machine_vars == <<text, icon, char_buf, esc_buf>>
loop_unused == <<ret, pushed, popped, tracking>>
cmd_vars == <<mode, brightness, input, pos>>
\* the receive FIFO of the UART and the log of the bytes taken from it
\* (SpecInput); the other specifications draw the bytes directly
uart_vars == <<fifo, handled>>
\* the frame buffer of the display and what its screen shows
disp_vars == <<frame, shown, inverted>>
\* the display as an arm finds it
Disp ==
    [frame |-> frame, shown |-> shown, panic |-> FALSE, inverted |-> inverted]

\* an arm makes the calls on the display and ends with the status st,
\* unless one of the calls panics
Draw(calls, st) ==
    \E disp \in {Render(Disp, calls)} :
        /\ frame' = disp.frame
        /\ shown' = disp.shown
        /\ inverted' = disp.inverted
        /\ status' = IF disp.panic THEN "panicked" ELSE st

NoCall == [name |-> "", arg |-> <<>>]

InitCommon ==
    /\ text = <<>>
    /\ icon = FALSE
    /\ status = "running"
    /\ char_buf = ""
    /\ esc_buf = <<>>
    /\ fifo = <<>>
    /\ handled = <<>>
    /\ call = NoCall
    /\ ret = <<>>
    /\ pushed = <<>>
    /\ popped = <<>>
    /\ tracking = FALSE
    /\ steps = 0
    /\ mode = "entry"
    /\ brightness = "BRIGHTEST"
    /\ input = <<>>
    /\ pos = 0
    /\ before = Now
    /\ \E disp \in {Drawn(data, text)} :
          /\ frame = disp.frame
          /\ shown = disp.shown
          /\ inverted = disp.inverted

(***************************************************************************)
(* SpecStack: a client calls the operations of a CustomStack<DecimalFixed> *)
(* built by build() or by build_debug().                                   *)
(***************************************************************************)
DF(ds) == new_prescaled(IntOf(FALSE, ds), DEFAULT_EXPONENT)
E1 == DF(<<1>>)
E2 == DF(<<2>>)
Elems == {E1, E2}
Vecs == {<<>>, <<E1>>, <<E1, E2>>, <<E2, E1, E1>>}
\* n: u8
Counts == {0, 1, 2, 3, MAX_MULTIPOP_SIZE, MAX_MULTIPOP_SIZE + 1, 255}

InitStack ==
    /\ data \in {build, build_debug}
    /\ InitCommon

\* the log of a push phase that starts on the empty stack and of the pops
\* that follow it; any other call ends the phase
Track(name, arg, r) ==
    IF name = "push" /\ r.ret.ok
    THEN IF data = <<>>
         THEN pushed' = <<arg>> /\ popped' = <<>> /\ tracking' = TRUE
         ELSE IF tracking /\ popped = <<>>
         THEN pushed' = Append(pushed, arg) /\ UNCHANGED <<popped, tracking>>
         ELSE pushed' = <<>> /\ popped' = <<>> /\ tracking' = FALSE
    ELSE IF name = "pop" /\ tracking
    THEN popped' = Append(popped, r.ret) /\ UNCHANGED <<pushed, tracking>>
    ELSE pushed' = <<>> /\ popped' = <<>> /\ tracking' = FALSE

Call(name, arg, r) ==
    /\ status = "running"
    /\ steps < MaxCalls
    /\ data' = r.data
    /\ ret' = r.ret
    /\ call' = [name |-> name, arg |-> arg]
    /\ status' = IF r.panic THEN "panicked" ELSE "running"
    /\ Track(name, arg, r)
    /\ before' = Now
    /\ steps' = steps + 1
    /\ UNCHANGED machine_vars
    /\ UNCHANGED cmd_vars
    /\ UNCHANGED uart_vars
    /\ UNCHANGED disp_vars

Push == \E v \in Elems : Call("push", v, push(data, v))
PushVec == \E v \in Vecs : Call("push_vec", v, push_vec(data, v))
PushSlice == \E v \in Vecs : Call("push_slice", v, push_slice(data, v))
Pop == Call("pop", <<>>, pop(data))
Multipop == \E n \in Counts : Call("multipop", n, multipop(data, n))
Peek == Call("peek", <<>>, peek(data))
Multipeek == \E n \in Counts : Call("multipeek", n, multipeek(data, n))
Clear == Call("clear", <<>>, clear(data))

NextStack ==
    \/ Push
    \/ PushVec
    \/ PushSlice
    \/ Pop
    \/ Multipop
    \/ Peek
    \/ Multipeek
    \/ Clear

SpecStack == InitStack /\ [][NextStack]_vars

(***************************************************************************)
(* SpecBox: a client calls the operations of a CustomTextbox built by      *)
(* build() or by build_debug(), with ASCII and multi-byte characters and   *)
(* strings.                                                                *)
(***************************************************************************)
DEBUG_TEXTBOX_MESSAGE ==
    <<"D", "E", "B", "U", "G", " ", "T", "E", "X", "T", "B", "O", "X">>
Chars == {"a", "U+00E9", "U+20AC"}
\* a string of count times the char c
Repeated(c, count) == [i \in 1..count |-> c]
Strs ==
    {<<>>, <<"a", "b">>,
     encode_utf8("U+00E9") \o encode_utf8("U+20AC"),
     Repeated("x", TEXT_BUFFER_SIZE - Len(DEBUG_TEXTBOX_MESSAGE) - 1),
     Repeated("x", TEXT_BUFFER_SIZE + 1)}
\* the number of calls the client makes
MaxBoxCalls == 4
\* count: usize
BackspaceCounts == {0, 1, 2, 3, TEXT_BUFFER_SIZE + 1}
Indices == {0, 1, 2}

box_unused == <<data, icon, char_buf, esc_buf, pushed, popped, tracking,
                mode, brightness, input, pos, fifo, handled, frame, shown,
                inverted>>

InitBox ==
    /\ data = build
    /\ text \in {<<>>, DEBUG_TEXTBOX_MESSAGE}
    /\ icon = FALSE
    /\ status = "running"
    /\ char_buf = ""
    /\ esc_buf = <<>>
    /\ fifo = <<>>
    /\ handled = <<>>
    /\ call = NoCall
    /\ ret = <<>>
    /\ pushed = <<>>
    /\ popped = <<>>
    /\ tracking = FALSE
    /\ steps = 0
    /\ mode = "entry"
    /\ brightness = "BRIGHTEST"
    /\ input = <<>>
    /\ pos = 0
    /\ before = Now
    /\ \E disp \in {Drawn(data, text)} :
          /\ frame = disp.frame
          /\ shown = disp.shown
          /\ inverted = disp.inverted

\* the client calls name(arg) on the textbox, which becomes r.text and
\* returns r.ret
BoxCall(name, arg, r) ==
    /\ status = "running"
    /\ steps < MaxBoxCalls
    /\ text' = r.text
    /\ ret' = r.ret
    /\ call' = [name |-> name, arg |-> arg]
    /\ status' = IF r.ret = Panic THEN "panicked" ELSE "running"
    /\ before' = Now
    /\ steps' = steps + 1
    /\ UNCHANGED box_unused

AppendStr == \E s \in Strs : BoxCall("append_str", s, append_str(text, s))
AppendChar == \E c \in Chars : BoxCall("append_char", c, append_char(text, c))
TextBackspace ==
    \E count \in BackspaceCounts :
        BoxCall("backspace", count, backspace(text, count))
InsertAt ==
    \E index \in Indices, c \in Chars :
        BoxCall("insert_at", <<index, c>>, insert_at(text, index, c))
RemoveAt ==
    \E index \in Indices : BoxCall("remove_at", index, remove_at(text, index))
TextClear == BoxCall("clear", <<>>, text_clear(text))

NextBox ==
    \/ AppendStr
    \/ AppendChar
    \/ TextBackspace
    \/ InsertAt
    \/ RemoveAt
    \/ TextClear

SpecBox == InitBox /\ [][NextBox]_vars

(***************************************************************************)
(* Spec: the main loop in Entry mode, one action per arm of its match.     *)
(* The stack starts empty (build()); the second initial state is the       *)
(* stack the loop holds after the bytes '0' '\r' have been received        *)
(* MAX_STACK_SIZE times: "0" parses to DecimalFixed::default().            *)
(***************************************************************************)
Filled == [i \in 1..MAX_STACK_SIZE |-> DecimalFixed_default]

Init ==
    /\ data \in {build, Filled}
    /\ InitCommon

\* control characters are written in caret notation: "^M" is '\r', "^H" is
\* '\x08', "^R" is '\x12', "^[" is '\x1B'
DigitKeys == {"0", "5", "6"}
OperatorKeys == {"+", "-", "*", "/"}
EscSeqs == {<<>>, <<"[", "A">>, <<"[", "1", "5", "~">>}

\* the loop takes the byte c and runs the arm named name, which ends in
\* the state s after the calls draws on the display; call records the arm
\* and the byte
Dispatch(name, c, buf, s, draws) ==
    /\ status = "running"
    /\ mode = "entry"
    /\ steps < MaxEvents
    /\ char_buf' = c
    /\ esc_buf' = buf
    /\ \E r \in {s} :
          /\ data' = r.data
          /\ text' = r.text
          /\ icon' = r.icon
          /\ Draw(draws, r.status)
    /\ call' = [name |-> name, arg |-> c]
    /\ before' = Now
    /\ steps' = steps + 1
    /\ UNCHANGED loop_unused
    /\ UNCHANGED cmd_vars

\* the same with the byte drawn directly
Event(name, c, buf, s, draws) ==
    Dispatch(name, c, buf, s, draws) /\ UNCHANGED uart_vars

Enter ==
    Event("enter", "^M", <<>>, enter_arm(text, data, icon),
          enter_draws(text, data))
Backspace ==
    Event("backspace", "^H", <<>>, backspace_arm(text, data, icon),
          backspace_draws(text, data))
DecimalPoint ==
    Event("decimal_point", ".", <<>>, decimal_point_arm(text, data, icon),
          decimal_point_draws(text, data))
Negate ==
    Event("negate", "n", <<>>, negate_arm(text, data, icon),
          negate_draws(text, data))
Digit ==
    \E c \in DigitKeys :
        Event("digit", c, <<>>, digit_arm(c, text, data, icon),
              digit_draws(c, text, data))
Operator ==
    \E c \in OperatorKeys :
        \E s \in {operator_arm(c, text, data, icon)} :
            Event("operator", c, <<>>, s, operator_draws(c, text, data, s))
CtrlR ==
    Event("redraw", "^R", <<>>, redraw_arm(text, data, icon),
          redraw_draws(text, data))
Escape ==
    \E buf \in EscSeqs :
        Event("escape", "^[", buf, escape_arm(buf, text, data, icon),
              escape_draws(buf, text, data))
Unhandled ==
    Event("unhandled", "x", <<>>, unhandled_arm(text, data, icon),
          unhandled_draws(text, data))

\* read_full_blocking fails: disp_error, a second's delay, the next read
ReadError ==
    /\ status = "running"
    /\ mode = "entry"
    /\ steps < MaxEvents
    /\ icon' = TRUE
    /\ Draw(<<DispError>>, status)
    /\ call' = [name |-> "read_error", arg |-> <<>>]
    /\ before' = Now
    /\ steps' = steps + 1
    /\ UNCHANGED <<data, text, char_buf, esc_buf>>
    /\ UNCHANGED uart_vars
    /\ UNCHANGED loop_unused
    /\ UNCHANGED cmd_vars

\* disp_grave_error ends in SCB::sys_reset(): main starts again
Reset ==
    /\ status \in {"grave", "reset"}
    /\ data' = build
    /\ text' = <<>>
    /\ icon' = FALSE
    /\ Draw(main_draws(build, <<>>), "running")
    /\ char_buf' = ""
    /\ esc_buf' = <<>>
    /\ call' = [name |-> "reset", arg |-> <<>>]
    /\ before' = Now
    /\ mode' = "entry"
    /\ brightness' = "BRIGHTEST"
    /\ input' = <<>>
    /\ pos' = 0
    /\ UNCHANGED steps
    /\ UNCHANGED uart_vars
    /\ UNCHANGED loop_unused

Next ==
    \/ Enter
    \/ Backspace
    \/ DecimalPoint
    \/ Negate
    \/ Digit
    \/ Operator
    \/ CtrlR
    \/ Escape
    \/ Unhandled
    \/ ReadError
    \/ Reset

Spec == Init /\ [][Next]_vars

(***************************************************************************)
(* SpecText: the main loop in Entry mode on the empty stack, started with  *)
(* the empty textbox or with the textbox the loop holds after the byte '5' *)
(* has been received TEXT_BUFFER_SIZE - 2 times, so that the textbox can   *)
(* fill up within MaxEvents events.                                        *)
(***************************************************************************)
LongText == [i \in 1..(TEXT_BUFFER_SIZE - 2) |-> "5"]
InitText ==
    /\ data = build
    /\ text \in {<<>>, LongText}
    /\ icon = FALSE
    /\ status = "running"
    /\ char_buf = ""
    /\ esc_buf = <<>>
    /\ fifo = <<>>
    /\ handled = <<>>
    /\ call = NoCall
    /\ ret = <<>>
    /\ pushed = <<>>
    /\ popped = <<>>
    /\ tracking = FALSE
    /\ steps = 0
    /\ mode = "entry"
    /\ brightness = "BRIGHTEST"
    /\ input = <<>>
    /\ pos = 0
    /\ before = Now
    /\ \E disp \in {Drawn(data, text)} :
          /\ frame = disp.frame
          /\ shown = disp.shown
          /\ inverted = disp.inverted
SpecText == InitText /\ [][Next]_vars

(***************************************************************************)
(* SpecCmd: Command mode.  ESC and the byte 0x14 enter handle_commands,    *)
(* which reads the command line byte by byte; one action per arm of its    *)
(* match on the byte, and one for the Enter that runs the command and      *)
(* hands the result to main.  The stacks that the machine starts with are  *)
(* stacks that Entry mode can build.  Bytes are written in caret notation: *)
(* "^T" is 0x14, "^C" is 0x03.                                             *)
(***************************************************************************)
MaxCommands == 2

CmdStacks == {<<>>, <<E1>>, <<E1, E2>>, <<E2, E1, E2>>, Filled}

\* a line of more characters than the textbox holds
LongLine == [i \in 1..(TEXT_BUFFER_SIZE + 1) |-> "a"]

CmdLines ==
    {<<"^M">>,
     <<"^H", "^M">>,
     <<"d", "^C">>,
     <<"s", "^M">>,
     <<"s", "w", "a", "p", "^M">>,
     <<"S", "^M">>,
     <<" ", "s", "^M">>,
     <<"s", " ", "^M">>,
     <<"s", "x", "^H", "^M">>,
     <<"x", "^M">>,
     <<"d", "^M">>,
     <<"c", "^M">>,
     <<"r", "^M">>,
     <<"d", "r", "o", "p", "^M">>,
     <<"d", "r", "o", "p", " ", "^M">>,
     <<"d", "r", "o", "p", " ", "0", "^M">>,
     <<"d", "r", "o", "p", " ", "1", "^M">>,
     <<"d", "r", "o", "p", " ", "3", "^M">>,
     <<"d", "r", "o", "p", " ", "1", "7", "^M">>,
     <<"d", "r", "o", "p", " ", "3", "0", "0", "^M">>,
     <<"d", "r", "o", "p", " ", "x", "^M">>,
     <<"d", "r", "o", "p", " ", " ", "1", "^M">>,
     <<"b", "r", "t", " ", "3", "^M">>,
     <<"b", "r", "t", " ", "9", "^M">>,
     <<"b", "r", "t", " ", "x", "^M">>,
     <<"b", "r", "t", " ", " ", "3", "^M">>,
     <<"r", "e", "s", "e", "t", "^M">>,
     <<"h", "a", "l", "t", "^M">>,
     LongLine}

InitCmd ==
    /\ data \in CmdStacks
    /\ InitCommon

\* the escape arm of main on the byte 0x14: handle_commands starts, clears
\* the textbox and waits for the bytes of the line
EnterCommand ==
    /\ status = "running"
    /\ mode = "entry"
    /\ steps < MaxCommands
    /\ \E line \in CmdLines : input' = line
    /\ pos' = 0
    /\ mode' = "command"
    /\ text' = <<>>
    /\ Draw(<<TextboxDraw(<<>>, TRUE), SetInvert(TRUE)>>, status)
    /\ char_buf' = "^["
    /\ esc_buf' = <<"^T">>
    /\ call' = [name |-> "escape", arg |-> "^["]
    /\ ret' = <<>>
    /\ before' = Now
    /\ steps' = steps + 1
    /\ UNCHANGED <<data, icon, brightness, pushed, popped, tracking>>
    /\ UNCHANGED uart_vars

\* handle_commands has read the next byte of the line
NextByte == input[pos + 1]

Reads(name) ==
    /\ status = "running"
    /\ mode = "command"
    /\ pos < Len(input)
    /\ pos' = pos + 1
    /\ call' = [name |-> name, arg |-> text]
    /\ before' = Now
    /\ UNCHANGED <<char_buf, esc_buf, steps, input, pushed, popped, tracking>>
    /\ UNCHANGED uart_vars

\* the loop of handle_commands goes on with the textbox as t, after the
\* calls draws on the display
Continues(t, draws) ==
    /\ text' = t
    /\ ret' = <<>>
    /\ Draw(draws, status)
    /\ UNCHANGED <<data, icon, mode, brightness>>

\* handle_commands is over, has left h and has made the calls draws on the
\* display; main matches on the result
Returned(h, draws) ==
    /\ \E r \in {command_result(h)} :
          /\ data' = r.data
          /\ text' = r.text
          /\ brightness' = r.brightness
          /\ icon' = r.icon
          /\ ret' = r.ret
          /\ Draw(draws \o command_result_draws(h), r.status)
          /\ mode' = IF r.status \in {"running", "grave"} THEN "entry"
                     ELSE mode

CmdChar ==
    /\ Reads("cmd_char")
    /\ accepted(NextByte)
    /\ \E r \in {append_char(text, NextByte)} :
          IF r.ret.ok THEN Continues(r.text, <<TextboxDraw(r.text, TRUE)>>)
          ELSE Returned(abort(r.ret.err, r.text, data, brightness, icon),
                        <<>>)

CmdBackspace ==
    /\ Reads("cmd_backspace")
    /\ NextByte = "^H"
    /\ IF text = <<>> THEN Continues(text, <<>>)
       ELSE \E r \in {backspace(text, 1)} :
               IF r.ret.ok
               THEN Continues(r.text, <<TextboxDraw(r.text, TRUE)>>)
               ELSE Returned(abort("Impossible", r.text, data, brightness,
                                   icon), <<>>)

CmdCtrlC ==
    /\ Reads("cmd_ctrl_c")
    /\ NextByte = "^C"
    /\ Returned(abort("Cancelled", <<>>, data, brightness, icon),
                <<TextboxDraw(<<>>, TRUE), SetInvert(FALSE)>>)

CmdIgnored ==
    /\ Reads("cmd_ignored")
    /\ ~accepted(NextByte)
    /\ NextByte \notin {"^M", "^H", "^C"}
    /\ Continues(text, <<>>)

CmdConfirm ==
    /\ Reads("cmd_confirm")
    /\ NextByte = "^M"
    /\ \E h \in {confirm(text, data, brightness, icon)} :
          Returned(h, confirm_draws(text, data, h))

\* read_full_blocking fails inside handle_commands
CmdReadError ==
    /\ status = "running"
    /\ mode = "command"
    /\ call' = [name |-> "cmd_read_error", arg |-> text]
    /\ before' = Now
    /\ Returned(abort("UartReadError", text, data, brightness, icon), <<>>)
    /\ UNCHANGED <<char_buf, esc_buf, steps, input, pos, pushed, popped,
                   tracking>>
    /\ UNCHANGED uart_vars

NextCmd ==
    \/ EnterCommand
    \/ CmdChar
    \/ CmdBackspace
    \/ CmdCtrlC
    \/ CmdIgnored
    \/ CmdConfirm
    \/ CmdReadError
    \/ Reset

SpecCmd == InitCmd /\ [][NextCmd]_vars

(***************************************************************************)
(* SpecMachine: the main loop with both its modes, the arms of Entry mode  *)
(* and handle_commands, started on the empty stack.                        *)
(***************************************************************************)
InitMachine ==
    /\ data = build
    /\ InitCommon

NextMachine ==
    \/ Next
    \/ EnterCommand
    \/ CmdChar
    \/ CmdBackspace
    \/ CmdCtrlC
    \/ CmdIgnored
    \/ CmdConfirm
    \/ CmdReadError

SpecMachine == InitMachine /\ [][NextMachine]_vars

(***************************************************************************)
(* SpecDec: a client of DecimalFixed.  It parses a text, formats a value,  *)
(* or calls an arithmetic operation on two operands; it may format what it *)
(* has parsed and subtract again what it has added.  call holds the        *)
(* operation and its arguments, ret what it returned.  Where the outcome   *)
(* depends on the overflow checks of the build, both builds are taken.     *)
(***************************************************************************)
ParseTexts ==
    {<<"3", ".", "1", "4">>, <<"3", ".", "1", "4", "0">>,
     <<"0", ".", "5">>, <<"-", "0", ".", "5">>, <<"-", "1", ".", "5">>,
     <<"-", "0", ".", "0", "0", "0", "0", "0", "0", "0", "0", "1">>,
     <<"5">>, <<"-", "5">>, <<"+", "5">>, <<"5", ".">>, <<"0", "0", "7">>,
     <<"0">>, <<"-", "0">>, <<"0", ".", "0">>, <<"1", "2", ".", "5">>,
     <<"1", ".", "0", "0", "0", "0", "0", "0", "0", "0", "0", "1">>,
     <<"-", "1", ".", "5", "5", "5", "5", "5", "5", "5", "5", "5", "9">>,
     <<>>, <<".">>, <<"-">>, <<".", "5">>, <<"x">>, <<"1", "x">>,
     <<"1", ".", "x">>, <<"1", ".", "2", ".", "3">>,
     <<"1", ".", "1", "2", "3", "4", "5", "6", "7", "8", "9", ".", "5">>,
     <<"1", ".", "+", "5">>, <<"1", ".", "-", "5">>,
     <<"1", ".", "0", "0", "0", "0", "0", "0", "0", "0", "0", "x">>,
     <<"9", "2", "2", "3", "3", "7", "2", "0", "3", "6">>,
     <<"9", "2", "2", "3", "3", "7", "2", "0", "3", "7">>,
     <<"9", "2", "2", "3", "3", "7", "2", "0", "3", "6", ".", "8", "5", "4", "7", "7", "5", "8", "0", "7">>,
     <<"-", "9", "2", "2", "3", "3", "7", "2", "0", "3", "6", ".", "8", "5", "4", "7", "7", "5", "8", "0", "8">>,
     <<"-", "9", "2", "2", "3", "3", "7", "2", "0", "3", "6", ".", "8", "5", "4", "7", "7", "5", "8", "0", "9">>}
ParseExps == {-9, -2, 0}
FmtValues ==
    {new_prescaled(IntOf(FALSE, <<0>>), -9),
     new_prescaled(IntOf(FALSE, <<0>>), 0),
     new_prescaled(IntOf(FALSE, <<0>>), 2),
     new_prescaled(IntOf(FALSE, <<3,1,4,0,0,0,0,0,0,0>>), -9),
     new_prescaled(IntOf(TRUE, <<5,0,0,0,0,0,0,0,0>>), -9),
     new_prescaled(IntOf(FALSE, <<1,0,0,0,0,0,0,0,0,1>>), -9),
     new_prescaled(IntOf(FALSE, <<5>>), 0),
     new_prescaled(IntOf(TRUE, <<5>>), 0),
     new_prescaled(IntOf(FALSE, <<5>>), 2),
     new_prescaled(IntOf(TRUE, <<5>>), 2),
     new_prescaled(IntOf(FALSE, <<3,1,4>>), -2),
     new_prescaled(IntOf(FALSE, <<1,0,0>>), -2),
     new_prescaled(IntOf(FALSE, <<5>>), -2),
     new_prescaled(IntOf(TRUE, <<5>>), -2),
     new_prescaled(IntOf(FALSE, <<9,2,2,3,3,7,2,0,3,6,8,5,4,7,7,5,8,0,7>>), -9),
     new_prescaled(IntOf(TRUE, <<9,2,2,3,3,7,2,0,3,6,8,5,4,7,7,5,8,0,8>>), -9),
     new_prescaled(IntOf(TRUE, <<9,2,2,3,3,7,2,0,3,6,8,5,4,7,7,5,8,0,8>>), 0),
     new_prescaled(IntOf(TRUE, <<9,2,2,3,3,7,2,0,3,6,8,5,4,7,7,5,8,0,8>>), 2),
     new_prescaled(IntOf(FALSE, <<9,2,2,3,3,7,2,0,3,6,8,5,4,7,7,5,8,0,7>>), 0)}
OperandValues ==
    {IntOf(FALSE, <<0>>), IntOf(FALSE, <<1>>), IntOf(TRUE, <<1>>),
     IntOf(FALSE, <<5,0,0,0,0,0,0,0,0,0>>),
     IntOf(FALSE, <<9,2,2,3,3,7,2,0,3,6,8,5,4,7,7,5,8,0,7>>),
     IntOf(TRUE, <<9,2,2,3,3,7,2,0,3,6,8,5,4,7,7,5,8,0,8>>)}
Operands == {new_prescaled(v, e) : v \in OperandValues, e \in {-9, -2}}
\* the operands of multiply, divide and negate: more values, and exponents
\* on both sides of zero and of the 18 that 10_i64.pow can take
FactorValues == OperandValues \cup {IntOf(TRUE, <<7>>), IntOf(FALSE, <<3>>)}
FactorExps == {-128, -9, -2, 2, 19, 127}
Factors == {new_prescaled(v, e) : v \in FactorValues, e \in FactorExps}

dec_unused == <<data, text, icon, status, char_buf, esc_buf, pushed, popped,
                tracking, before, steps, mode, brightness, input, pos,
                fifo, handled, frame, shown, inverted>>

InitDec ==
    /\ data = build
    /\ InitCommon

\* the client calls name(arg), which returns r
Fresh(name, arg, r) ==
    /\ call = NoCall
    /\ call' = [name |-> name, arg |-> arg]
    /\ ret' = r
    /\ UNCHANGED dec_unused

\* the client hands the value that prev returned to name, which returns r
Chained(prev, name, r) ==
    /\ call.name = prev
    /\ ret.ok
    /\ call' = [name |-> name, arg |-> call.arg]
    /\ ret' = r
    /\ UNCHANGED dec_unused

ParseStaticExp ==
    \E s \in ParseTexts, exp \in ParseExps :
        Fresh("parse_static_exp", <<s, exp>>, parse_static_exp(s, exp))
Fmt ==
    \E self \in FmtValues, checks \in BOOLEAN :
        Fresh("fmt", self, fmt(self, checks))
FmtParsed ==
    /\ call.name = "parse_static_exp"
    /\ ret.ok
    /\ \E checks \in BOOLEAN :
           Chained("parse_static_exp", "fmt_parsed", fmt(ret.val, checks))
Addition ==
    \E a \in Operands, b \in Operands :
        \E r \in {addition(a, b), priv_add_release(a, b)} :
            Fresh("addition", <<a, b>>, r)
Subtract ==
    \E a \in Operands, b \in Operands :
        \E r \in {subtract(a, b), subtract_release(a, b)} :
            Fresh("subtract", <<a, b>>, r)
SubtractBack ==
    /\ call.name = "addition"
    /\ ret.ok
    /\ \E r \in {subtract(ret.val, call.arg[2]),
                 subtract_release(ret.val, call.arg[2])} :
           Chained("addition", "subtract_back", r)
Multiply ==
    \E a \in Factors, b \in Factors :
        \E r \in {multiply(a, b), priv_mul_release(a, b, TRUE)} :
            Fresh("multiply", <<a, b>>, r)
Divide ==
    \E a \in Factors, b \in Factors :
        \E r \in {divide(a, b), priv_div_release(a, b, TRUE)} :
            Fresh("divide", <<a, b>>, r)
MultiplyNoKeepExp ==
    \E a \in Factors, b \in Factors :
        Fresh("multiply_no_keep_exp", <<a, b>>, multiply_no_keep_exp(a, b))
DivideNoKeepExp ==
    \E a \in Factors, b \in Factors :
        Fresh("divide_no_keep_exp", <<a, b>>, divide_no_keep_exp(a, b))
NegateNew ==
    \E self \in Factors : Fresh("negate", self, negate(self))
NegateInPlace ==
    \E self \in Factors :
        Fresh("negate_in_place", self, negate_in_place(self))
NegateBack ==
    /\ call.name \in {"negate", "negate_in_place"}
    /\ ret.ok
    /\ Chained(call.name, "negate_back", negate(ret.val))

NextDec ==
    \/ ParseStaticExp
    \/ Fmt
    \/ FmtParsed
    \/ Addition
    \/ Subtract
    \/ SubtractBack
    \/ Multiply
    \/ Divide
    \/ MultiplyNoKeepExp
    \/ DivideNoKeepExp
    \/ NegateNew
    \/ NegateInPlace
    \/ NegateBack

SpecDec == InitDec /\ [][NextDec]_vars

(***************************************************************************)
(* SpecInput: the main loop fed from the receive FIFO of the UART.  A key  *)
(* of the terminal sends its bytes in one burst; the loop takes one byte   *)
(* with read_full_blocking and, after ESC, whatever the FIFO holds 50 ms   *)
(* later with read_raw.  handled logs every byte taken from the FIFO: the  *)
(* key it came from, the pass of the loop that took it and how it was      *)
(* taken ("event": dispatched as the character of the pass, "sequence":    *)
(* named by the pattern that the escape arm matched, "discarded": read     *)
(* after ESC and not named by the pattern).                                *)
(***************************************************************************)
\* keys pressed at the terminal (SpecInput)
MaxKeys == 3

Keys == {"5", "Enter", "Up", "F5", "Esc"}
KeyBytes(k) ==
    IF k = "5" THEN <<"5">>
    ELSE IF k = "Enter" THEN <<"^M">>
    ELSE IF k = "Up" THEN <<"^[", "[", "A">>
    ELSE IF k = "F5" THEN <<"^[", "[", "1", "5", "~">>
    ELSE <<"^[">>

\* let mut buf = [0_u8; 6]
ESC_BUFFER_SIZE == 6

\* rx.read_raw(&mut buf) on the FIFO f: the bytes at hand, the buffer's
\* size at most; the result is ignored
read_raw(f) == SubSeq(f, 1, IF Len(f) < ESC_BUFFER_SIZE THEN Len(f) ELSE ESC_BUFFER_SIZE)

\* the number of bytes that the pattern matching buf names
\* ([b'[', b'A', ..] names two and leaves the rest to `..`)
matched(buf) ==
    LET is(p) == Len(buf) >= Len(p) /\ SubSeq(buf, 1, Len(p)) = p
    IN  IF \E c \in {"A", "B", "C", "D"} : is(<<"[", c>>) THEN 2
        ELSE IF is(<<"[", "3", "~">>) THEN 3
        ELSE IF is(<<"^T">>) THEN 1
        ELSE IF is(<<"[", "1", "5", "~">>) THEN 4
        ELSE 0

\* the keys pressed so far
Pressed ==
    IF fifo # <<>> THEN fifo[Len(fifo)].key
    ELSE IF handled # <<>> THEN handled[Len(handled)].key
    ELSE 0

input_unused == <<ret, pushed, popped, tracking, mode, brightness, input, pos>>

\* the terminal sends the bytes of a key
KeyPress ==
    /\ status = "running"
    /\ Pressed < MaxKeys
    /\ \E k \in Keys :
           fifo' = fifo \o [i \in 1..Len(KeyBytes(k)) |->
                              [byte |-> KeyBytes(k)[i], key |-> Pressed + 1]]
    /\ UNCHANGED <<data, text, icon, status, char_buf, esc_buf, call, before,
                   steps, handled>>
    /\ UNCHANGED input_unused
    /\ UNCHANGED disp_vars

\* the bytes raw, read after the byte first, as the pass logs them
Taken(first, raw) ==
    <<[byte |-> first.byte, key |-> first.key, pass |-> steps + 1,
       how |-> "event"]>>
    \o [i \in 1..Len(raw) |->
           [byte |-> raw[i].byte, key |-> raw[i].key, pass |-> steps + 1,
            how |-> IF i <= matched([j \in 1..Len(raw) |-> raw[j].byte])
                    THEN "sequence" ELSE "discarded"]]

\* a pass of 'main on a byte other than ESC
ReadChar ==
    /\ fifo # <<>>
    /\ Head(fifo).byte # "^["
    /\ LET c == Head(fifo).byte
       IN  IF c = "^M"
           THEN Dispatch("enter", c, <<>>, enter_arm(text, data, icon),
                         enter_draws(text, data))
           ELSE IF IsDigit(c)
           THEN Dispatch("digit", c, <<>>, digit_arm(c, text, data, icon),
                         digit_draws(c, text, data))
           ELSE Dispatch("unhandled", c, <<>>,
                         unhandled_arm(text, data, icon),
                         unhandled_draws(text, data))
    /\ fifo' = Tail(fifo)
    /\ handled' = handled \o Taken(Head(fifo), <<>>)

\* a pass of 'main on ESC: the escape arm reads on
ReadEscape ==
    /\ fifo # <<>>
    /\ Head(fifo).byte = "^["
    /\ \E raw \in {read_raw(Tail(fifo))} :
           /\ Dispatch("escape", "^[", [i \in 1..Len(raw) |-> raw[i].byte],
                       escape_arm([i \in 1..Len(raw) |-> raw[i].byte],
                                  text, data, icon),
                       escape_draws([i \in 1..Len(raw) |-> raw[i].byte],
                                    text, data))
           /\ fifo' = SubSeq(fifo, Len(raw) + 2, Len(fifo))
           /\ handled' = handled \o Taken(Head(fifo), raw)

NextInput ==
    \/ KeyPress
    \/ ReadChar
    \/ ReadEscape

SpecInput == Init /\ [][NextInput]_vars
(***************************************************************************)
(* Properties of the stack, checked under SpecStack.  call, ret and before *)
(* describe the operation that led to the current state.                   *)
(***************************************************************************)
Called(names) == call.name \in names /\ status = "running"
Min(a, b) == IF a < b THEN a ELSE b

\* C1: after any sequence of push, push_vec, push_slice, pop, multipop and
\* clear the length of the stack is between 0 and MAX_STACK_SIZE, and a push
\* onto a stack of MAX_STACK_SIZE elements fails and leaves the length there.
C1_LengthWithinCapacity ==
    /\ Len(data) >= 0
    /\ Len(data) <= MAX_STACK_SIZE
    /\ (Called({"push"}) /\ Len(before.data) = MAX_STACK_SIZE)
          => (~ret.ok /\ Len(data) = MAX_STACK_SIZE)

\* C1 happens: a push has been refused by a stack of MAX_STACK_SIZE elements
C1_Witness ==
    /\ Called({"push"})
    /\ Len(before.data) = MAX_STACK_SIZE
    /\ ~ret.ok
    /\ Len(data) = MAX_STACK_SIZE

\* C2: push(v) onto a stack of MAX_STACK_SIZE elements fails with the
\* capacity error, leaves the stack as it was and hands v back to the caller.
C2_PushFullHandsBack ==
    (Called({"push"}) /\ Len(before.data) = MAX_STACK_SIZE)
        => /\ ~ret.ok
           /\ data = before.data
           /\ "val" \in DOMAIN ret
           /\ ret.val = call.arg

\* C3: k values pushed onto the empty stack come back from k pops in the
\* reverse order, and every further pop returns None.
C3_Lifo ==
    tracking =>
        \A j \in 1..Len(popped) :
            popped[j] = IF j <= Len(pushed)
                        THEN Some(pushed[Len(pushed) + 1 - j])
                        ELSE None

\* C3 happens: two different values pushed onto the empty stack, three pops
C3_Witness ==
    /\ tracking
    /\ Len(pushed) = 2
    /\ pushed[1] # pushed[2]
    /\ Len(popped) = 3
    /\ Called({"pop"})

\* C4: push_vec and push_slice of m values onto a stack of length L append
\* all of them in order when L + m <= MAX_STACK_SIZE, and otherwise fail
\* with the capacity error and leave the stack as it was.
C4_BulkPushAllOrNothing ==
    Called({"push_vec", "push_slice"}) =>
        IF Len(before.data) + Len(call.arg) <= MAX_STACK_SIZE
        THEN ret = Ok(Unit) /\ data = before.data \o call.arg
        ELSE ret = Err("CapacityError") /\ data = before.data

\* C4 happens: a bulk push that fits only in part has been refused
C4_Witness ==
    /\ Called({"push_vec", "push_slice"})
    /\ Len(before.data) < MAX_STACK_SIZE
    /\ Len(before.data) + Len(call.arg) > MAX_STACK_SIZE
    /\ ret = Err("CapacityError")
    /\ data = before.data

\* C5 as stated: multipop(n) and multipeek(n) return the selected elements
\* topmost first, and multipeek leaves the stack unchanged.
C5_TopmostFirst ==
    (Called({"multipop", "multipeek"}) /\ ret # None) =>
        /\ \A i \in 1..Len(ret[1]) :
              ret[1][i] = before.data[Len(before.data) + 1 - i]
        /\ call.name = "multipeek" => data = before.data

\* C5 amended: multipop(n) and multipeek(n) return the selected elements in
\* the order of the stack, the topmost element last, and multipeek leaves
\* the stack unchanged.
C5_TopmostLast ==
    (Called({"multipop", "multipeek"}) /\ ret # None) =>
        /\ \A i \in 1..Len(ret[1]) :
              ret[1][i] = before.data[Len(before.data) - Len(ret[1]) + i]
        /\ call.name = "multipeek" => data = before.data

\* C5 happens: multipop has returned two different elements
C5_Witness ==
    /\ Called({"multipop"})
    /\ ret # None
    /\ Len(ret[1]) = 2
    /\ ret[1][1] # ret[1][2]
    /\ ret[1][2] = before.data[Len(before.data)]

\* C6: multipop(n), for every n in 0..255 and every stack of length L,
\* returns without a panic; on a non-empty stack it returns Min(n, L)
\* elements, removes them from the top and leaves the elements below; on
\* the empty stack it returns None and changes nothing.
C6_MultipopTotal ==
    call.name = "multipop" =>
        /\ status = "running"
        /\ IF before.data = <<>>
           THEN ret = None /\ data = before.data
           ELSE /\ ret # None
                /\ Len(ret[1]) = Min(call.arg, Len(before.data))
                /\ data = SubSeq(before.data, 1,
                                 Len(before.data)
                                 - Min(call.arg, Len(before.data)))

(***************************************************************************)
(* Properties of the main loop in Entry mode, checked under Spec.  call    *)
(* names the arm that led to the current state and the byte it took,       *)
(* before holds the stack, the textbox and the error icon it found.        *)
(***************************************************************************)
Arm(name) == call.name = name
Parsed == parse_static_exp(before.text, DECFIX_EXPONENT)
Full(d) == Len(d) = MAX_STACK_SIZE
\* the whole number with the decimal digits ds at the exponent of the stack
Whole(neg, ds) ==
    new_prescaled(IntMul(IntOf(neg, ds), Pow10(-DECFIX_EXPONENT)),
                  DECFIX_EXPONENT)

\* C7 as stated: Enter with an empty textbox or with "-" changes neither the
\* stack nor the textbox; Enter with any other text that parses pushes the
\* parsed number (exponent -9) onto the stack, leaves the elements below
\* unchanged and leaves the textbox empty.
C7_EnterPushes ==
    Arm("enter") =>
        IF before.text \in {<<>>, <<"-">>}
        THEN data = before.data /\ text = before.text
        ELSE Parsed.ok =>
                 /\ data = Append(before.data, Parsed.val)
                 /\ text = <<>>

\* C7 amended: as C7, for a stack of fewer than MAX_STACK_SIZE elements;
\* on a stack of MAX_STACK_SIZE elements Enter with a text that parses
\* pushes nothing and leaves the text in the textbox.
C7_EnterPushesUnlessFull ==
    Arm("enter") =>
        IF before.text \in {<<>>, <<"-">>}
        THEN data = before.data /\ text = before.text
        ELSE Parsed.ok =>
                 IF Full(before.data)
                 THEN data = before.data /\ text = before.text
                 ELSE /\ data = Append(before.data, Parsed.val)
                      /\ text = <<>>
                      /\ status = "running"

\* C7 happens: Enter has pushed the number typed into the textbox
C7_Witness ==
    /\ Arm("enter")
    /\ before.text \notin {<<>>, <<"-">>}
    /\ Parsed.ok
    /\ data = Append(before.data, Parsed.val)
    /\ text = <<>>

\* C8: when the parse or the push of Enter fails (any parse failure, an
\* overflow, a full stack) the stack is unchanged, the error icon is shown
\* and the loop keeps running: the failure is never fatal.
C8_EnterFailureRecoverable ==
    (/\ Arm("enter")
     /\ before.text \notin {<<>>, <<"-">>}
     /\ (~Parsed.ok \/ Full(before.data)))
        => /\ data = before.data
           /\ icon
           /\ status = "running"

\* C9: an operator with the textbox empty and the stack [.., a, b], b on
\* top, whose arithmetic succeeds leaves [.., a OP b]: one element fewer,
\* the elements below a unchanged; [5, 6] and '-' leave [-1].
C9_OperatorOrder ==
    (Arm("operator") /\ before.text = <<>> /\ Len(before.data) >= 2) =>
        LET n == Len(before.data)
            applied(r) ==
                r.ok => data = Append(SubSeq(before.data, 1, n - 2), r.val)
        IN  /\ applied(apply_operator(call.arg, before.data[n - 1],
                                      before.data[n]))
            /\ (/\ call.arg = "-"
                /\ before.data = <<Whole(FALSE, <<5>>), Whole(FALSE, <<6>>)>>)
                  => data = <<Whole(TRUE, <<1>>)>>

\* C9 happens: '-' has been applied to the stack [5, 6]
C9_Witness ==
    /\ Arm("operator")
    /\ call.arg = "-"
    /\ before.text = <<>>
    /\ before.data = <<Whole(FALSE, <<5>>), Whole(FALSE, <<6>>)>>
    /\ data = <<Whole(TRUE, <<1>>)>>
    /\ status = "running"

\* C10: an operator applied with fewer than two elements on the stack is
\* recoverable (error icon, the loop keeps running) and leaves the stack
\* with the contents it had before the pops: a popped operand is pushed
\* back.
C10_OperandRestored ==
    (Arm("operator") /\ before.text = <<>> /\ Len(before.data) < 2) =>
        /\ status = "running"
        /\ icon
        /\ data = before.data

\* the stack, the textbox, the icon and the status as the record of an arm
Here == St(data, text, icon, status)

\* C11: an operator with a non-empty textbox first deals with the textbox as
\* Enter does: "-" alone is left alone and is no failure, a text that parses
\* is pushed and the textbox emptied, a failure of the parse or of the push
\* is recoverable and leaves the stack; only then are the operands popped.
C11_OperatorParsesAsEnter ==
    (Arm("operator") /\ before.text # <<>>) =>
        /\ status = "running"
        /\ IF before.text = <<"-">>
           THEN Here = operands_arm(call.arg, before.text, before.data,
                                    before.icon)
           ELSE IF Parsed.ok /\ ~Full(before.data)
           THEN Here = operands_arm(call.arg, <<>>,
                                    Append(before.data, Parsed.val), FALSE)
           ELSE data = before.data /\ text = before.text /\ icon

(***************************************************************************)
(* Properties of the textbox in Entry mode, checked under SpecText.        *)
(***************************************************************************)
\* no '-' beyond index 0
SignOnlyInFront(t) == \A i \in 2..Len(t) : t[i] # "-"
Toggled(t) == negate_arm(t, data, icon).text
DoubleToggle == SignOnlyInFront(text) => Toggled(Toggled(text)) = text

\* C12 as stated: 'n' on the empty textbox gives "-", on a textbox that
\* starts with '-' removes it, and otherwise puts a '-' in front; two 'n'
\* in a row give the textbox back; the stack is not changed.
C12_SignToggle ==
    /\ Arm("negate") =>
          /\ data = before.data
          /\ text = IF before.text = <<>> THEN <<"-">>
                    ELSE IF before.text[1] = "-" THEN Tail(before.text)
                    ELSE <<"-">> \o before.text
    /\ DoubleToggle

\* C12, amended: as above, except that a textbox without '-' that already
\* holds TEXT_BUFFER_SIZE characters is left as it is and the error icon
\* is shown.
C12_SignToggleUnlessFull ==
    /\ Arm("negate") =>
          /\ data = before.data
          /\ IF before.text = <<>> THEN text = <<"-">>
             ELSE IF before.text[1] = "-" THEN text = Tail(before.text)
             ELSE IF Len(before.text) < TEXT_BUFFER_SIZE
             THEN text = <<"-">> \o before.text
             ELSE text = before.text /\ icon
    /\ DoubleToggle

\* "-5" has become "5" by 'n'; on the textbox "5" a second 'n' gives "-5"
C12_Witness ==
    /\ Arm("negate")
    /\ before.text = <<"-", "5">>
    /\ text = <<"5">>
    /\ Toggled(text) = <<"-", "5">>

DotCount(t) == Cardinality({i \in 1..Len(t) : t[i] = "."})

\* C13 as stated: '.' on the empty textbox gives "0.", on a textbox with a
\* '.' changes nothing, and otherwise appends '.'; the textbox never holds
\* more than one '.'.
C13_DecimalPoint ==
    /\ Arm("decimal_point") =>
          text = IF before.text = <<>> THEN <<"0", ".">>
                 ELSE IF contains(before.text, ".") THEN before.text
                 ELSE Append(before.text, ".")
    /\ DotCount(text) <= 1

\* C13, amended: as above, except that a textbox without '.' that already
\* holds TEXT_BUFFER_SIZE characters is left as it is and the error icon
\* is shown.
C13_DecimalPointUnlessFull ==
    /\ Arm("decimal_point") =>
          IF before.text = <<>> THEN text = <<"0", ".">>
          ELSE IF contains(before.text, ".") THEN text = before.text
          ELSE IF Len(before.text) < TEXT_BUFFER_SIZE
          THEN text = Append(before.text, ".")
          ELSE text = before.text /\ icon
    /\ DotCount(text) <= 1

\* a '.' event on a textbox that already holds one, left unchanged
C13_Witness ==
    /\ Arm("decimal_point")
    /\ before.text = <<"5", ".", "6">>
    /\ text = before.text

(***************************************************************************)
(* Properties of Command mode, checked under SpecCmd.  call names the step *)
(* of handle_commands that led to the current state and holds the command  *)
(* line as the step found it; ret is the result handle_commands returned.  *)
(***************************************************************************)
\* Enter has confirmed one of the lines in words
Ran(words) == call.name = "cmd_confirm" /\ call.arg \in words
Failed(e) == ret = Err(e) /\ status = "running"
Succeeded == ret = Ok(Unit) /\ status = "running"

\* C14: swap on a stack of two or more elements exchanges the two on top
\* and leaves the others; on a stack of one element it fails with BadInput
\* and the element is still there; on the empty stack it fails with
\* BadInput and the stack stays empty.
C14_Swap ==
    Ran({<<"s">>, <<"s", "w", "a", "p">>}) =>
        LET n == Len(before.data)
        IN  IF n >= 2
            THEN /\ Succeeded
                 /\ Len(data) = n
                 /\ data[n] = before.data[n - 1]
                 /\ data[n - 1] = before.data[n]
                 /\ \A i \in 1..(n - 2) : data[i] = before.data[i]
            ELSE Failed("BadInput") /\ data = before.data

\* "swap" has exchanged E1 and E2 on top of [E2, E1, E2]
C14_Witness ==
    /\ Ran({<<"s", "w", "a", "p">>})
    /\ before.data = <<E2, E1, E2>>
    /\ data = <<E2, E2, E1>>

\* "s" has failed on a stack of one element, which is still there
C14_WitnessOne ==
    /\ Ran({<<"s">>})
    /\ before.data = <<E1>>
    /\ data = <<E1>>
    /\ Failed("BadInput")

\* C15: duplicate on a non-empty stack puts a copy of the top element on
\* top and removes nothing; when it fails (the empty stack gives BadInput,
\* or the stack is at its capacity) the stack is as it was before.
C15_Duplicate ==
    Ran({<<"d">>, <<"d", "u", "p">>,
         <<"d", "u", "p", "l", "i", "c", "a", "t", "e">>}) =>
        /\ status = "running"
        /\ before.data = <<>> => Failed("BadInput")
        /\ IF ret.ok
           THEN data = Append(before.data, before.data[Len(before.data)])
           ELSE data = before.data

\* the confirmed line is one of the three commands that take a number
DropN == call.name = "cmd_confirm"
         /\ str_starts_with(call.arg, <<"d", "r", "o", "p", " ">>)
Brt == call.name = "cmd_confirm"
       /\ \/ str_starts_with(call.arg, <<"b", "r", "t", " ">>)
          \/ str_starts_with(call.arg, <<"b", "r", "i", "g", "h", "t", "n",
                                         "e", "s", "s", " ">>)
\* the parts of the line before and after its last space
Word == LET last == CHOOSE k \in 1..Len(call.arg) :
                        call.arg[k] = " "
                        /\ \A j \in (k + 1)..Len(call.arg) : call.arg[j] # " "
        IN  SubSeq(call.arg, 1, last - 1)
Suffix == SubSeq(call.arg, Len(Word) + 2, Len(call.arg))
WordFits ==
    IF DropN THEN Word = <<"d", "r", "o", "p">>
    ELSE Word \in {<<"b", "r", "t">>,
                   <<"b", "r", "i", "g", "h", "t", "n", "e", "s", "s">>}
\* the suffix is a number written in decimal digits, and its value
IsNumber(s) == s # <<>> /\ \A i \in 1..Len(s) : IsDigit(s[i])
RECURSIVE Value(_)
Value(s) == IF s = <<>> THEN 0
            ELSE 10 * Value(SubSeq(s, 1, Len(s) - 1)) + DigitVal(s[Len(s)])
Unchanged == data = before.data /\ brightness = before.brightness

\* C16 as stated: "drop n" with n greater than the length of the stack
\* fails with BadInput and leaves the stack as it was.
C16_DropTooMany ==
    (DropN /\ WordFits /\ IsNumber(Suffix)
        /\ Value(Suffix) > Len(before.data)) =>
        Failed("BadInput") /\ data = before.data

\* C16, amended: "drop n" with n greater than the length of the stack
\* leaves the stack as it was and fails, with BadInput when n is at most
\* 255 and with ParseIntError(PosOverflow) when n is greater.
C16_DropTooManyFails ==
    (DropN /\ WordFits /\ IsNumber(Suffix)
        /\ Value(Suffix) > Len(before.data)) =>
        /\ data = before.data
        /\ IF Value(Suffix) <= U8_MAX THEN Failed("BadInput")
           ELSE Failed("ParseIntError(PosOverflow)")

\* "drop 3" has failed on a stack of two elements
C16_Witness ==
    /\ DropN
    /\ Suffix = <<"3">>
    /\ before.data = <<E1, E2>>
    /\ data = <<E1, E2>>
    /\ Failed("BadInput")

\* C17 as stated: when the part before the last space is not the command
\* word, or the suffix is not a number in the accepted range, the command
\* fails with BadInput and changes neither the stack nor the brightness.
C17_SuffixBadInput ==
    ((DropN \/ Brt)
        /\ ~(/\ WordFits
             /\ IsNumber(Suffix)
             /\ Value(Suffix) >= 1
             /\ Value(Suffix) <= IF DropN THEN Len(before.data)
                                 ELSE Len(BrightnessLevels))) =>
        Failed("BadInput") /\ Unchanged

\* C17, amended: as above, but a suffix that is empty, holds a character
\* that is no digit, or is a number greater than 255 fails with the
\* ParseIntError kind (Empty, InvalidDigit, PosOverflow); a wrong word and a
\* number of at most 255 outside the range fail with BadInput.
C17_SuffixFails ==
    ((DropN \/ Brt)
        /\ ~(/\ WordFits
             /\ IsNumber(Suffix)
             /\ Value(Suffix) >= 1
             /\ Value(Suffix) <= IF DropN THEN Len(before.data)
                                 ELSE Len(BrightnessLevels))) =>
        /\ Unchanged
        /\ IF ~WordFits THEN Failed("BadInput")
           ELSE IF Suffix = <<>> THEN Failed("ParseIntError(Empty)")
           ELSE IF ~IsNumber(Suffix) THEN Failed("ParseIntError(InvalidDigit)")
           ELSE IF Value(Suffix) > U8_MAX
           THEN Failed("ParseIntError(PosOverflow)")
           ELSE Failed("BadInput")

\* "drop  1" with its doubled space has failed on a stack of two elements
C17_Witness ==
    /\ DropN
    /\ call.arg = <<"d", "r", "o", "p", " ", " ", "1">>
    /\ before.data = <<E1, E2>>
    /\ Failed("BadInput")
    /\ Unchanged

\* the bytes of the line that came before the Enter, none of them a
\* control character
Typed == SubSeq(input, 1, pos - 1)
Printable == \A i \in 1..Len(Typed) : Typed[i] \notin {"^M", "^H", "^C"}
Folded(s) == [i \in 1..Len(s) |-> IF s[i] = "S" THEN "s" ELSE s[i]]
Trimmed(s) ==
    LET keep == {i \in 1..Len(s) : s[i] # " "}
    IN  IF keep = {} THEN <<>>
        ELSE SubSeq(s, CHOOSE i \in keep : \A j \in keep : i <= j,
                       CHOOSE i \in keep : \A j \in keep : j <= i)
\* the lines that the match on the command names in full
Table ==
    {<<"r", "e", "s", "e", "t">>, <<"h", "a", "l", "t">>,
     <<"b">>, <<"b", "k", "p", "t">>,
     <<"b", "r", "e", "a", "k", "p", "o", "i", "n", "t">>,
     <<"b", " ", "a", "l", "t">>, <<"b", "k", "p", "t", " ", "a", "l", "t">>,
     <<"b", "r", "e", "a", "k", "p", "o", "i", "n", "t", " ", "a", "l", "t">>,
     <<"b", "o", "o", "t", " ", "u", "s", "b">>,
     <<"u", "s", "b", " ", "b", "o", "o", "t">>, <<"u", "s", "b">>,
     <<"r">>, <<"f", "5">>, <<"r", "e", "f", "r", "e", "s", "h">>,
     <<"r", "e", "l", "o", "a", "d">>, <<"r", "e", "d", "r", "a", "w">>,
     <<"c">>, <<"c", "l", "s">>, <<"c", "l", "e", "a", "r">>,
     <<"d">>, <<"d", "u", "p">>,
     <<"d", "u", "p", "l", "i", "c", "a", "t", "e">>,
     <<"d", "r", "o", "p">>, <<"s">>, <<"s", "w", "a", "p">>}

C18_WitnessUpper ==
    /\ call.name = "cmd_confirm"
    /\ Typed = <<"S">>
    /\ call.arg = <<>>
    /\ Failed("Cancelled")

\* C19: the Enter on an empty command line, and Ctrl-C, end with Cancelled:
\* the machine is back in Entry mode, the stack is as it was, the textbox
\* is empty and the error icon has not been drawn.
C19_Cancelled ==
    (call.name = "cmd_ctrl_c"
        \/ (call.name = "cmd_confirm" /\ call.arg = <<>>)) =>
        /\ Failed("Cancelled")
        /\ mode = "entry"
        /\ data = before.data
        /\ text = <<>>
        /\ icon = before.icon

\* Ctrl-C after a "d" has been typed
C19_Witness ==
    /\ call.name = "cmd_ctrl_c"
    /\ call.arg = <<"d">>
    /\ Failed("Cancelled")
    /\ mode = "entry"
    /\ text = <<>>

\* the step that led here was a step of handle_commands
InCommand ==
    call.name \in {"cmd_char", "cmd_backspace", "cmd_ctrl_c", "cmd_ignored",
                   "cmd_confirm", "cmd_read_error"}
\* handle_commands has returned and the main loop goes on
BackInEntry == InCommand /\ mode = "entry" /\ status = "running"

\* C20 as stated: the machine starts in Entry mode, and it is back in Entry
\* mode only after a command that succeeded or was cancelled.
C20_EntryAfterSuccessOrCancel ==
    /\ call = NoCall => mode = "entry"
    /\ BackInEntry => ret = Ok(Unit) \/ ret = Err("Cancelled")

\* C20, amended: the machine starts in Entry mode, and it is back in Entry
\* mode only after a command that succeeded, was cancelled, or failed with
\* BadInput, CapacityError or a ParseIntError; after any other failure
\* the main loop does not go on.
C20_EntryAfterRecoverable ==
    /\ call = NoCall => mode = "entry"
    /\ BackInEntry =>
           \/ ret = Ok(Unit)
           \/ ret \in {Err("Cancelled"), Err("BadInput"), Err("CapacityError"),
                       Err("ParseIntError(Empty)"),
                       Err("ParseIntError(InvalidDigit)"),
                       Err("ParseIntError(PosOverflow)")}
    /\ (InCommand /\ ret \in {Err("UartReadError"), Err("Impossible")}) =>
           status = "grave"

\* back in Entry mode after the unknown command "x"
C20_Witness ==
    /\ BackInEntry
    /\ call.arg = <<"x">>
    /\ ret = Err("BadInput")
    /\ icon

(***************************************************************************)
(* Properties of the input stream, checked under SpecInput.                *)
(***************************************************************************)
\* the bytes that pass p took from the FIFO
TakenBy(p) == {i \in 1..Len(handled) : handled[i].pass = p}

\* C21: the bytes are handled in the order of their arrival and none is
\* skipped: every byte taken is dispatched as an event of its own or belongs
\* to a recognised escape sequence, and handling one event never takes bytes
\* of a later event (of another key).
C21_InOrderNoneSkipped ==
    /\ \A i \in 1..Len(handled) :
           /\ handled[i].how \in {"event", "sequence"}
           /\ \A j \in TakenBy(handled[i].pass) :
                  handled[j].key = handled[i].key
    /\ \A i, j \in 1..Len(handled) :
           i <= j => handled[i].key <= handled[j].key
\* the same as long as no key is pressed before the bytes of the one before
\* it are handled
C21_OneKeyAtATime ==
    Pressed <= 1 =>
        /\ \A i \in 1..Len(handled) :
               /\ handled[i].how \in {"event", "sequence"}
               /\ \A j \in TakenBy(handled[i].pass) :
                      handled[j].key = handled[i].key
        /\ (fifo = <<>> /\ handled # <<>>) =>
               \/ Len(handled) = 1
               \/ /\ handled[1].byte = "^["
                  /\ \A i \in 2..Len(handled) : handled[i].how = "sequence"
\* an arrow key and a digit: the digit is read with the arrow's bytes and
\* never reaches the textbox
C21_DigitSwallowed ==
    /\ Len(handled) = 4
    /\ handled[2].byte = "[" /\ handled[3].byte = "A"
    /\ handled[4] = [byte |-> "5", key |-> 2, pass |-> 1, how |-> "discarded"]
    /\ fifo = <<>>
    /\ text = <<>>

\* the last event was a forced redraw: Ctrl-R, or ESC followed by [15~ (F5)
ForcedRedraw ==
    \/ call.name = "redraw"
    \/ call.name = "escape" /\ esc_buf = <<"[", "1", "5", "~">>
Unrecognised == call.name = "unhandled"

\* C23: a forced redraw (Ctrl-R or the F5 escape sequence) and any
\* unrecognised character leave the stack, the buffer and the mode as they
\* were; after a forced redraw no recoverable-error indicator is shown.
C23_RedrawAndUnrecognised ==
    /\ (ForcedRedraw \/ Unrecognised)
           => /\ data = before.data
              /\ text = before.text
              /\ mode = "entry"
              /\ status = "running"
    /\ ForcedRedraw => ~icon
C23_Witness ==
    /\ call.name = "redraw"
    /\ before.icon
    /\ ~icon
    /\ data # <<>>
    /\ text # <<>>
    /\ data = before.data
    /\ text = before.text
C23_WitnessF5 ==
    /\ call.name = "escape"
    /\ esc_buf = <<"[", "1", "5", "~">>
    /\ before.icon
    /\ ~icon
C23_WitnessUnrecognised ==
    /\ Unrecognised
    /\ before.icon
    /\ icon
    /\ text # <<>>
    /\ text = before.text

(***************************************************************************)
(* Properties of the display, checked under Spec (Entry mode) and under    *)
(* SpecCmd (Command mode).  The machine blocks in read_full_blocking       *)
(* whenever status is "running".                                           *)
(***************************************************************************)
\* the characters on a screen or in a frame buffer
Screen(view) ==
    [stack |-> [i \in 1..Len(view.stack) |->
                  IF view.stack[i] = None THEN <<>>
                  ELSE fmt(view.stack[i][1], TRUE).val],
     text  |-> view.text,
     image |-> view.image]

\* what a render of the stack d and of the textbox t puts on the screen
Rendered(d, t) == Drawn(d, t).shown

\* the draws panic where Display::fmt does, with overflow checks on
C22_DrawPanicsAsFmt ==
    /\ call.name = "fmt" =>
           (fmt_panics(call.arg) <=> fmt(call.arg, TRUE) = Panic)
    /\ \A n \in -1..20 : pow10_overflows(n) <=> pow10_i64(n, TRUE) = Panic

C22_WitnessFailedOperator ==
    /\ Arm("operator")
    /\ status = "running"
    /\ before.text # <<>>
    /\ icon
    /\ data # before.data
    /\ Screen(shown) = Screen(Rendered(data, text))
    /\ Screen(shown) # Screen(Rendered(before.data, before.text))

\* a command has changed the stack and handle_commands has returned
C22_WitnessCommand ==
    /\ call.name = "cmd_confirm"
    /\ status = "running"
    /\ mode = "entry"
    /\ data # before.data
    /\ Screen(shown) = Screen(Rendered(data, text))
    /\ Screen(shown) # Screen(Rendered(before.data, before.text))

(***************************************************************************)
(* Properties of DecimalFixed, checked under SpecDec.                      *)
(***************************************************************************)
ParseCalled == call.name = "parse_static_exp"
Text == call.arg[1]
Exp == call.arg[2]

\* the text without its sign, the places of its dots, and its two halves
Unsigned(s) == IF s # <<>> /\ s[1] \in {"+", "-"} THEN Tail(s) ELSE s
DotsOf(s) == {i \in 1..Len(s) : s[i] = "."}
WholeDigits(s) ==
    LET u == Unsigned(s)
    IN  IF DotsOf(u) = {} THEN u
        ELSE SubSeq(u, 1, (CHOOSE i \in DotsOf(u) : TRUE) - 1)
FracDigits(s) ==
    LET u == Unsigned(s)
    IN  IF DotsOf(u) = {} THEN <<>>
        ELSE SubSeq(u, (CHOOSE i \in DotsOf(u) : TRUE) + 1, Len(u))

\* an optional sign, digits, an optional single '.' and fractional digits
Decimal(s) ==
    /\ Cardinality(DotsOf(Unsigned(s))) <= 1
    /\ WholeDigits(s) # <<>>
    /\ \A i \in 1..Len(WholeDigits(s)) : IsDigit(WholeDigits(s)[i])
    /\ \A i \in 1..Len(FracDigits(s)) : IsDigit(FracDigits(s)[i])

\* the number s denotes, truncated toward zero to n fractional digits and
\* scaled by 10^n
Scaled(s, n) ==
    LET frac == FracDigits(s)
        kept == [i \in 1..n |-> IF i <= Len(frac) THEN frac[i] ELSE "0"]
        ds   == WholeDigits(s) \o kept
    IN  IntOf(s[1] = "-", [i \in 1..Len(ds) |-> DigitVal(ds[i])])

\* C24: for a text made of an optional sign, digits, an optional single '.'
\* and fractional digits, parse with a negative exponent e returns exponent e
\* and the value of the signed number truncated toward zero to -e fractional
\* digits and scaled by 10^(-e), for positive and negative texts alike,
\* negative numbers with a zero integer part included (stated for the texts
\* whose scaled value fits 64 bits).
C24_ParsedValue ==
    (ParseCalled /\ Exp < 0 /\ Decimal(Text) /\ FitsI64(Scaled(Text, -Exp)))
        => ret = Ok(new_prescaled(Scaled(Text, -Exp), Exp))
\* the same but for the negative texts with a zero integer part
C24_ParsedValueElsewhere ==
    (/\ ParseCalled /\ Exp < 0 /\ Decimal(Text) /\ FitsI64(Scaled(Text, -Exp))
     /\ ~(Text[1] = "-" /\ \A i \in 1..Len(WholeDigits(Text)) :
                               WholeDigits(Text)[i] = "0"))
        => ret = Ok(new_prescaled(Scaled(Text, -Exp), Exp))

\* the places of the characters that are neither a digit, nor a '.', nor a
\* sign in front
Offending(s) ==
    {i \in 1..Len(s) :
        ~IsDigit(s[i]) /\ s[i] # "." /\ ~(i = 1 /\ s[i] \in {"+", "-"})}
Malformed(s) == s = <<>> \/ Cardinality(DotsOf(s)) > 1 \/ Offending(s) # {}

\* C25: parse returns an error and no value for the empty text, for a text
\* with more than one '.', and for a text with any character other than an
\* optional leading sign, digits and one '.', wherever the character stands;
\* a non-negative exponent yields the Unimplemented error.
C25_ParseErrors ==
    ParseCalled =>
        /\ Exp >= 0 => ret = Err("Unimplemented")
        /\ (Exp < 0 /\ Malformed(Text)) => ~ret.ok
\* the first dot of the text, and the text as far as the parser reads it
FirstDot(s) ==
    IF DotsOf(s) = {} THEN Len(s) + 1
    ELSE CHOOSE i \in DotsOf(s) : \A j \in DotsOf(s) : i <= j
Kept(s, n) == IF Len(s) <= FirstDot(s) + n THEN Len(s) ELSE FirstDot(s) + n
\* the same for the texts whose second dot or offending character stands
\* before the dot or within the first -exponent fractional digits, and is
\* not a sign right after the dot
C25_ParseErrorsWithinKept ==
    ParseCalled =>
        /\ Exp >= 0 => ret = Err("Unimplemented")
        /\ (/\ Exp < 0
            /\ \/ Text = <<>>
               \/ \E i \in 1..Kept(Text, -Exp) :
                     /\ i \in Offending(Text) \/ (Text[i] = "." /\ i > FirstDot(Text))
                     /\ ~(i = FirstDot(Text) + 1 /\ Text[i] \in {"+", "-"}))
           => ~ret.ok

\* the canonical form of a decimal text: no '+', no sign on zero, no leading
\* zeros in front of the integer part, no trailing fractional zeros, no
\* decimal point when the fraction is zero
Canonical(s) ==
    LET w     == WholeDigits(s)
        f     == FracDigits(s)
        lead  == CHOOSE k \in 0..(Len(w) - 1) :
                    /\ \A i \in 1..k : w[i] = "0"
                    /\ k = Len(w) - 1 \/ w[k + 1] # "0"
        last  == CHOOSE k \in 0..Len(f) :
                    /\ \A i \in (k + 1)..Len(f) : f[i] = "0"
                    /\ k = 0 \/ f[k] # "0"
        zero  == \A i \in 1..Len(w \o f) : (w \o f)[i] = "0"
    IN  (IF s[1] = "-" /\ ~zero THEN <<"-">> ELSE <<>>)
        \o SubSeq(w, lead + 1, Len(w))
        \o (IF last = 0 THEN <<>> ELSE <<".">> \o SubSeq(f, 1, last))

FmtParsedCalled == call.name = "fmt_parsed"
\* a decimal text with at most n fractional digits whose value is in range
Representable(s, n) ==
    Decimal(s) /\ Len(FracDigits(s)) <= n /\ FitsI64(Scaled(s, n))

\* C26: for every decimal text s, optionally negative, with at most 9
\* fractional digits and within range, format(parse(s, -9)) is the canonical
\* form of s.
C26_RoundTrip ==
    (FmtParsedCalled /\ Exp = -9 /\ Representable(Text, 9))
        => ret = Ok(Canonical(Text))
\* the same but for the negative texts with a zero integer part and the
\* text of the extremal negative value
C26_RoundTripElsewhere ==
    (/\ FmtParsedCalled /\ Exp = -9 /\ Representable(Text, 9)
     /\ ~(Text[1] = "-" /\ \A i \in 1..Len(WholeDigits(Text)) :
                               WholeDigits(Text)[i] = "0")
     /\ Scaled(Text, 9) # I64_MIN)
        => ret = Ok(Canonical(Text))
C26_Witness ==
    /\ FmtParsedCalled /\ Exp = -9 /\ Text = <<"3", ".", "1", "4", "0">>
    /\ ret = Ok(<<"3", ".", "1", "4">>)

FmtCalled == call.name = "fmt"
\* the decimal digits of |x| as characters, without leading zeros
AbsDigits(x) ==
    [i \in 1..Len(MagDigits(x.mag)) |-> DigitChars[MagDigits(x.mag)[i] + 1]]
Zeros(n) == [i \in 1..n |-> "0"]
\* the text of value x 10^exponent
Printed(self) ==
    LET sign == IF self.value.neg THEN <<"-">> ELSE <<>>
        n    == -self.exponent
        ds   == AbsDigits(self.value)
        \* at least one digit in front of the last n
        all  == IF Len(ds) > n THEN ds ELSE Zeros(n + 1 - Len(ds)) \o ds
        last == CHOOSE k \in (Len(all) - n)..Len(all) :
                    /\ \A i \in (k + 1)..Len(all) : all[i] = "0"
                    /\ k = Len(all) - n \/ all[k] # "0"
    IN  IF self.value = IntZero THEN <<"0">>
        ELSE IF self.exponent >= 0
        THEN sign \o ds \o Zeros(self.exponent)
        ELSE sign \o SubSeq(all, 1, Len(all) - n)
             \o (IF last = Len(all) - n THEN <<>>
                 ELSE <<".">> \o SubSeq(all, Len(all) - n + 1, last))

\* C27: format prints "0" for every zero value; for a negative exponent the
\* sign, the integer part and, only when the fractional part is non-zero, a
\* '.' and the fractional digits with leading zeros kept and trailing zeros
\* stripped; for a positive exponent the integer and exponent-many zeros; for
\* exponent 0 the integer verbatim; for every 64-bit value, the extremal
\* negative one included.
C27_Format == FmtCalled => ret = Ok(Printed(call.arg))
\* the same but for the extremal negative value with a negative exponent
C27_FormatElsewhere ==
    (FmtCalled /\ ~(call.arg.value = I64_MIN /\ call.arg.exponent < 0))
        => ret = Ok(Printed(call.arg))
\* what the two builds make of the extremal negative value
C27_FormatOfMin ==
    (FmtCalled /\ call.arg.value = I64_MIN /\ call.arg.exponent = -9)
        => \/ ret = Panic
           \/ ret = Ok(<<"-", "-", "9", "2", "2", "3", "3", "7", "2", "0",
                         "3", "6", ".", "-", "8", "5", "4", "7", "7", "5",
                         "8", "0", "8">>)

Added == call.name = "addition"
Subtracted == call.name = "subtract"
A == call.arg[1]
B == call.arg[2]
\* the smaller exponent, and a value rescaled to it
SmallerExp(a, b) == IF a.exponent <= b.exponent THEN a.exponent ELSE b.exponent
Rescaled(x, e) == IntMul(x.value, Pow10(x.exponent - e))
\* the exact sum and difference at the smaller exponent
ExactSum(a, b) ==
    IntAdd(Rescaled(a, SmallerExp(a, b)), Rescaled(b, SmallerExp(a, b)))
ExactDifference(a, b) ==
    IntSub(Rescaled(a, SmallerExp(a, b)), Rescaled(b, SmallerExp(a, b)))
\* the exact result at exponent e if it fits 64 bits, the overflow error if not
ExactOrOverflow(exact, e) ==
    IF FitsI64(exact) THEN Ok(new_prescaled(exact, e)) ELSE Err("MathOverflow")

\* C28: for all operands a and b, of equal or different exponents, either one
\* the smaller, addition and subtract return the exact sum or difference at
\* the smaller exponent whenever it fits 64 bits and the overflow error
\* otherwise; they never wrap, panic or return a value of another meaning.
C28_AddSubtractExact ==
    /\ Added => ret = ExactOrOverflow(ExactSum(A, B), SmallerExp(A, B))
    /\ Subtracted =>
           ret = ExactOrOverflow(ExactDifference(A, B), SmallerExp(A, B))
\* the same for the operands whose first exponent is not the smaller one,
\* the subtraction of the extremal negative value excepted
C28_AddSubtractExactElsewhere ==
    /\ (Added /\ A.exponent >= B.exponent)
           => ret = ExactOrOverflow(ExactSum(A, B), SmallerExp(A, B))
    /\ (Subtracted /\ A.exponent >= B.exponent /\ B.value # I64_MIN)
           => ret = ExactOrOverflow(ExactDifference(A, B), SmallerExp(A, B))
\* with the first exponent the smaller one, the call panics or returns the
\* first operand
C28_SmallerFirst ==
    ((Added \/ Subtracted) /\ A.exponent < B.exponent
        /\ (Added \/ B.value # I64_MIN))
        => ret = Panic \/ ret = Ok(A)

SubtractedBack == call.name = "subtract_back"

\* C29: for all a and b of the same exponent whose sum does not overflow,
\* a.addition(b) followed by subtract(b) succeeds and returns exactly a.
C29_AddThenSubtract ==
    (SubtractedBack /\ A.exponent = B.exponent) => ret = Ok(A)
\* the same for every b but the extremal negative value
C29_AddThenSubtractElsewhere ==
    (SubtractedBack /\ A.exponent = B.exponent /\ B.value # I64_MIN)
        => ret = Ok(A)
\* the extremal negative value cannot be subtracted
C29_SubtractMin ==
    (SubtractedBack /\ B.value = I64_MIN) => ret = Err("MathOverflow")

Multiplied == call.name = "multiply"
Divided == call.name = "divide"

\* C30: the keep-exponent multiply and divide return an error and no result
\* whenever the exponents of the two operands differ, for every pair of
\* values; a zero divisor is reported as division by zero (BadInput) first.
C30_DifferentExponents ==
    /\ (Multiplied /\ A.exponent # B.exponent) => ret = Err("Unimplemented")
    /\ (Divided /\ A.exponent # B.exponent)
           => ret = IF B.value = IntZero THEN Err("BadInput")
                    ELSE Err("Unimplemented")
C30_Witness ==
    /\ Multiplied
    /\ A = new_prescaled(I64_MAX, -9)
    /\ B = new_prescaled(IntOf(TRUE, <<1>>), -2)
    /\ ret = Err("Unimplemented")
C30_WitnessZeroDivisor ==
    /\ Divided
    /\ A.exponent # B.exponent
    /\ B.value = IntZero
    /\ ret = Err("BadInput")
C30_WitnessDivide ==
    /\ Divided
    /\ A.exponent # B.exponent
    /\ B.value # IntZero
    /\ ret = Err("Unimplemented")

IntLt(x, y) == ~IntLe(y, x)
\* q is the quotient n / d truncated toward zero, for d # 0: stated by the
\* bounds on its absolute value and by its sign, not computed by a division
IsTruncated(q, n, d) ==
    /\ IntLe(IntMul(IntAbs(q), IntAbs(d)), IntAbs(n))
    /\ IntLt(IntAbs(n),
             IntMul(IntAdd(IntAbs(q), IntOf(FALSE, <<1>>)), IntAbs(d)))
    /\ (q = IntZero \/ q.neg = (n.neg # d.neg))
\* n / d truncated toward zero is in i64::MIN..i64::MAX
TruncatedFits(n, d) ==
    IF n.neg # d.neg
    THEN IntLt(IntAbs(n),
               IntMul(IntAdd(IntAbs(I64_MIN), IntOf(FALSE, <<1>>)), IntAbs(d)))
    ELSE IntLt(IntAbs(n), IntMul(IntAbs(I64_MIN), IntAbs(d)))
\* r is n / d truncated toward zero at exponent e if that fits 64 bits, and
\* the overflow error if not
ExactAt(r, n, d, e) ==
    IF TruncatedFits(n, d)
    THEN r.ok /\ r.val.exponent = e /\ IsTruncated(r.val.value, n, d)
    ELSE r = Err("MathOverflow")
\* a * b and a / b at the exponent e of both, as fractions of integers
ExactProduct(r, a, b, e) ==
    IF e >= 0
    THEN ExactAt(r, IntMul(IntMul(a.value, b.value), Pow10(e)),
                 IntOf(FALSE, <<1>>), e)
    ELSE ExactAt(r, IntMul(a.value, b.value), Pow10(-e), e)
ExactQuotient(r, a, b, e) ==
    IF e >= 0
    THEN ExactAt(r, a.value, IntMul(b.value, Pow10(e)), e)
    ELSE ExactAt(r, IntMul(a.value, Pow10(-e)), b.value, e)
SameExponent == A.exponent = B.exponent

\* C31: for operands of the same exponent e, multiply and divide (by a
\* non-zero divisor) return, at exponent e, the exact product or quotient
\* truncated toward zero whenever it fits 64 bits and the overflow error
\* otherwise; they never wrap or panic.
C31_MulDivExact ==
    /\ (Multiplied /\ SameExponent) => ExactProduct(ret, A, B, A.exponent)
    /\ (Divided /\ SameExponent /\ B.value # IntZero)
           => ExactQuotient(ret, A, B, A.exponent)
\* the same for the exponents -18..18, whose power of ten fits an i64
C31_MulDivExactWithin ==
    /\ (Multiplied /\ SameExponent /\ AbsExp(A.exponent) <= 18)
           => ExactProduct(ret, A, B, A.exponent)
    /\ (Divided /\ SameExponent /\ B.value # IntZero
            /\ AbsExp(A.exponent) <= 18)
           => ExactQuotient(ret, A, B, A.exponent)
\* a quotient that is rounded: -1 / 5000000000 is zero, not -1
C31_WitnessTruncated ==
    /\ Divided
    /\ A = new_prescaled(IntOf(TRUE, <<1>>), -9)
    /\ B = new_prescaled(IntOf(FALSE, <<5,0,0,0,0,0,0,0,0,0>>), -9)
    /\ ret = Ok(new_prescaled(IntZero, -9))

\* outside -18..18 a build with overflow checks panics in 10_i64.pow, and
\* one without them scales by the wrapped power: 1 * 1 at exponent 19 is
\* 10^19 - 2^64
C31_PowerWraps ==
    (Multiplied /\ SameExponent /\ A.exponent = 19
        /\ A.value = IntOf(FALSE, <<1>>) /\ B.value = IntOf(FALSE, <<1>>))
        => \/ ret = Panic
           \/ ret = Ok(new_prescaled(
                  IntOf(TRUE, <<8,4,4,6,7,4,4,0,7,3,7,0,9,5,5,1,6,1,6>>), 19))
C31_WitnessWrapped ==
    /\ Multiplied
    /\ SameExponent
    /\ A.exponent = 19
    /\ ret.ok
    /\ ret.val.value = IntOf(TRUE, <<8,4,4,6,7,4,4,0,7,3,7,0,9,5,5,1,6,1,6>>)

MultipliedNoKeep == call.name = "multiply_no_keep_exp"
DividedNoKeep == call.name = "divide_no_keep_exp"
FitsI8(e) == e >= -128 /\ e <= 127
MinByMinusOne == A.value = I64_MIN /\ B.value = IntOf(TRUE, <<1>>)
\* r is the product of the stored integers at the sum of the exponents, or
\* the overflow error if either does not fit its width
StoredProduct(r, a, b) ==
    IF FitsI64(IntMul(a.value, b.value)) /\ FitsI8(a.exponent + b.exponent)
    THEN r = Ok(new_prescaled(IntMul(a.value, b.value),
                              a.exponent + b.exponent))
    ELSE r = Err("MathOverflow")
\* r is the quotient of the stored integers at the difference of the
\* exponents, or the overflow error if either does not fit its width
StoredQuotient(r, a, b) ==
    IF TruncatedFits(a.value, b.value) /\ FitsI8(a.exponent - b.exponent)
    THEN /\ r.ok
         /\ r.val.exponent = a.exponent - b.exponent
         /\ IsTruncated(r.val.value, a.value, b.value)
    ELSE r = Err("MathOverflow")

\* C32: multiply_no_keep_exp and divide_no_keep_exp (by a non-zero divisor)
\* return the product or quotient of the stored integers at the sum or
\* difference of the exponents, and the overflow error whenever the value or
\* the exponent does not fit its width, i64::MIN / -1 included; they never
\* wrap or abort.
C32_NoKeepExact ==
    /\ MultipliedNoKeep => StoredProduct(ret, A, B)
    /\ (DividedNoKeep /\ B.value # IntZero) => StoredQuotient(ret, A, B)
\* the same for every division but i64::MIN / -1
C32_NoKeepExactElsewhere ==
    /\ MultipliedNoKeep => StoredProduct(ret, A, B)
    /\ (DividedNoKeep /\ B.value # IntZero /\ ~MinByMinusOne)
           => StoredQuotient(ret, A, B)
\* i64::MIN / -1 aborts, whatever the exponents are
C32_MinByMinusOne == (DividedNoKeep /\ MinByMinusOne) => ret = Panic
C32_WitnessExponent ==
    /\ DividedNoKeep
    /\ A.exponent = 127
    /\ B.exponent = -9
    /\ B.value # IntZero
    /\ ~MinByMinusOne
    /\ ret = Err("MathOverflow")
C32_WitnessProduct ==
    /\ MultipliedNoKeep
    /\ A.exponent = -9
    /\ B.exponent = -9
    /\ ret = Ok(new_prescaled(IntOf(TRUE, <<2,1>>), -18))

\* the '/' key found a zero on top of the stack and an operand under it:
\* the zero was there and the textbox empty, or the textbox held a zero that
\* the arm pushed first
ZeroOnTop ==
    /\ Arm("operator")
    /\ call.arg = "/"
    /\ before.text = <<>>
    /\ Len(before.data) >= 2
    /\ is_zero(before.data[Len(before.data)])
ZeroTyped ==
    /\ Arm("operator")
    /\ call.arg = "/"
    /\ before.text # <<>>
    /\ Parsed.ok
    /\ is_zero(Parsed.val)
    /\ before.data # <<>>
    /\ ~Full(before.data)
DroppedLast(d, n) == SubSeq(d, 1, Len(d) - n)

\* C33: divide and divide_no_keep_exp by an operand whose value is zero
\* return Err(BadInput), never Overflow or Unimplemented, for every dividend
\* and every pair of exponents; in the main loop a '/' with a zero on top of
\* the stack is a recoverable error: the error icon is shown and the loop
\* goes on.
C33_ZeroDivisor ==
    /\ ((Divided \/ DividedNoKeep) /\ is_zero(B)) => ret = Err("BadInput")
    /\ ZeroOnTop =>
           /\ status = "running"
           /\ icon
           /\ data = DroppedLast(before.data, 2)
    /\ ZeroTyped =>
           /\ status = "running"
           /\ icon
           /\ data = DroppedLast(before.data, 1)
C33_Witness ==
    /\ DividedNoKeep
    /\ A = new_prescaled(I64_MIN, 127)
    /\ B = new_prescaled(IntZero, -128)
    /\ ret = Err("BadInput")
C33_WitnessDifferentExponents ==
    /\ Divided
    /\ A.exponent = 19
    /\ B = new_prescaled(IntZero, -9)
    /\ ret = Err("BadInput")
C33_WitnessZeroOnTop == ZeroOnTop /\ icon /\ status = "running"
C33_WitnessZeroTyped == ZeroTyped /\ icon /\ status = "running"

Negated == call.name \in {"negate", "negate_in_place"}
NegatedBack == call.name = "negate_back"

\* C34: negate and negate_in_place return a zero as it is, fail with the
\* overflow error on i64::MIN, and otherwise return the value of the opposite
\* sign and the same magnitude at the same exponent; negating the result
\* again returns the original number.
C34_Negate ==
    /\ (Negated /\ is_zero(call.arg)) => ret = Ok(call.arg)
    /\ (Negated /\ call.arg.value = I64_MIN) => ret = Err("MathOverflow")
    /\ (Negated /\ ~is_zero(call.arg) /\ call.arg.value # I64_MIN) =>
           /\ ret.ok
           /\ ret.val.exponent = call.arg.exponent
           /\ ret.val.value.neg # call.arg.value.neg
           /\ IntAdd(ret.val.value, call.arg.value) = IntZero
    /\ NegatedBack => ret = Ok(call.arg)
C34_Witness ==
    /\ NegatedBack
    /\ call.arg = new_prescaled(I64_MAX, -9)
    /\ ret = Ok(call.arg)
C34_WitnessMin ==
    /\ call.name = "negate_in_place"
    /\ call.arg = new_prescaled(I64_MIN, -9)
    /\ ret = Err("MathOverflow")
C34_WitnessZero ==
    /\ call.name = "negate"
    /\ call.arg = new_prescaled(IntZero, 2)
    /\ ret = Ok(call.arg)

(***************************************************************************)
(* Properties of the textbox's operations, checked under SpecBox.  call    *)
(* and ret are the last call and what it returned, before.text the text    *)
(* it was made on.                                                         *)
(***************************************************************************)
\* the indices of the bytes that start a character
Starts(t) == {i \in 1..Len(t) : ~IsContinuation(t[i])}
\* the number of characters of t
CharCount(t) == Cardinality(Starts(t))
\* t is whole characters: it starts with one, and the byte that starts a
\* character is followed by just the bytes that continue it
WholeChars(t) ==
    /\ t # <<>> => ~IsContinuation(t[1])
    /\ \A i \in Starts(t) :
           /\ i + len_utf8(t[i]) - 1 <= Len(t)
           /\ \A j \in (i + 1)..(i + len_utf8(t[i]) - 1) : IsContinuation(t[j])
           /\ i + len_utf8(t[i]) <= Len(t)
                  => ~IsContinuation(t[i + len_utf8(t[i])])
AppendedChar == call.name = "append_char"
AppendedStr == call.name = "append_str"
\* the bytes that the call was to append
Appendix == IF AppendedChar THEN encode_utf8(call.arg) ELSE call.arg

\* C35: append_char and append_str append all bytes of the character or
\* string when the byte length stays within TEXT_BUFFER_SIZE and fail with
\* CapacityError, the text unchanged, when it does not; after any sequence
\* of operations the text is at most TEXT_BUFFER_SIZE bytes of whole
\* characters.
C35_AppendAllOrNothing ==
    /\ (AppendedChar \/ AppendedStr) =>
           IF Len(before.text) + Len(Appendix) <= TEXT_BUFFER_SIZE
           THEN ret = Ok(Unit) /\ text = before.text \o Appendix
           ELSE ret = Err("CapacityError") /\ text = before.text
    /\ Len(text) <= TEXT_BUFFER_SIZE
    /\ WholeChars(text)
\* a three-byte character that does not fit behind 30 bytes
C35_Witness ==
    /\ AppendedChar
    /\ call.arg = "U+20AC"
    /\ Len(before.text) = TEXT_BUFFER_SIZE - 2
    /\ ret = Err("CapacityError")
    /\ text = before.text
C35_WitnessFull ==
    /\ AppendedStr
    /\ ~is_ascii(call.arg)
    /\ ret = Ok(Unit)
    /\ Len(text) = TEXT_BUFFER_SIZE

Backspaced == call.name = "backspace"

\* C36: backspace(n) fails with BadInput, the text unchanged, whenever the
\* text holds fewer than n characters, multi-byte characters counted as one
\* each, and otherwise removes exactly the last n characters without
\* failing or panicking.
C36_BackspaceCountsChars ==
    Backspaced =>
        IF CharCount(before.text) < call.arg
        THEN ret = Err("BadInput") /\ text = before.text
        ELSE /\ ret = Ok(Unit)
             /\ CharCount(text) = CharCount(before.text) - call.arg
             /\ text = SubSeq(before.text, 1, Len(text))
\* the same for ASCII text, and for any text that holds no fewer characters
\* than n or fewer bytes than n
C36_BackspaceElsewhere ==
    (Backspaced /\ (\/ is_ascii(before.text)
                    \/ CharCount(before.text) >= call.arg
                    \/ Len(before.text) < call.arg)) =>
        IF CharCount(before.text) < call.arg
        THEN ret = Err("BadInput") /\ text = before.text
        ELSE /\ ret = Ok(Unit)
             /\ CharCount(text) = CharCount(before.text) - call.arg
             /\ text = SubSeq(before.text, 1, Len(text))
\* fewer characters than n in no fewer bytes than n: the call panics
C36_TooFewChars ==
    (Backspaced /\ CharCount(before.text) < call.arg
        /\ call.arg <= Len(before.text))
        => ret = Panic /\ status = "panicked"
C36_WitnessMultiByte ==
    /\ Backspaced
    /\ call.arg = 2
    /\ ~is_ascii(before.text)
    /\ CharCount(before.text) > 2
    /\ ret = Ok(Unit)
    /\ Len(text) < Len(before.text) - 2

(***************************************************************************)
(* Properties of the main loop with both modes, checked under SpecMachine. *)
(***************************************************************************)
\* t is the start of a number: digits, at most one '.', '-' only in front
PartialNumber(t) ==
    /\ \A i \in 1..Len(t) : IsDigit(t[i]) \/ t[i] \in {".", "-"}
    /\ Cardinality({i \in 1..Len(t) : t[i] = "."}) <= 1
    /\ \A i \in 2..Len(t) : t[i] # "-"
\* the main loop waits for the next byte in Entry mode
WaitsInEntry == mode = "entry" /\ status = "running"

\* C37: whenever the machine waits for input in Entry mode the textbox holds
\* the start of a number: only digits, at most one '.', and a '-' only at
\* index 0, also after a visit to Command mode that ended in success, in
\* cancellation or in bad input.
C37_PartialNumber == WaitsInEntry => PartialNumber(text)
\* the arms of Entry mode keep the textbox the start of a number, and a
\* command that succeeded or was cancelled leaves it empty
C37_KeptInEntry ==
    [][/\ (mode = "entry" /\ mode' = "entry" /\ PartialNumber(text))
              => PartialNumber(text')
       /\ (mode = "command" /\ mode' = "entry" /\ status' = "running"
               /\ (ret' = Ok(Unit) \/ ret' = Err("Cancelled")))
              => text' = <<>>]_vars
\* a command that failed with a recoverable error leaves its line in the
\* textbox
C37_LineLeft ==
    (BackInEntry /\ ret # Ok(Unit) /\ ret # Err("Cancelled"))
        => text = call.arg
\* Enter on what an unknown command has left halts the machine
C37_WitnessHalts ==
    /\ Arm("enter")
    /\ ~PartialNumber(before.text)
    /\ status = "grave"

\* C38: the branches that the code labels impossible are never taken: the
\* backspace, decimal-point and sign-toggle arms never end in the grave
\* error (backspace(1) on a non-empty textbox and an append to the empty
\* textbox succeed, the leading '-' is removed, no '-' is found elsewhere);
\* the operator arm ends in it only for a textbox that does not parse (no
\* second pop succeeds after a first that found nothing, and the push after
\* two pops succeeds); Command mode never returns Impossible.
C38_ImpossibleUnreachable ==
    /\ (Arm("backspace") \/ Arm("decimal_point") \/ Arm("negate"))
           => status # "grave"
    /\ (Arm("operator") /\ status = "grave") =>
           /\ before.text # <<>>
           /\ ~Parsed.ok
           /\ ~RecoverableParseError(Parsed.err)
    /\ InCommand => ret # Err("Impossible")
\* the sign is toggled on what a failed command has left in the textbox
C38_Witness ==
    /\ Arm("negate")
    /\ starts_with(before.text, "-")
    /\ ~PartialNumber(before.text)
    /\ text = Tail(before.text)
    /\ status = "running"
C38_WitnessOperator ==
    /\ Arm("operator")
    /\ before.text # <<>>
    /\ Len(before.data) = 1
    /\ Len(data) = 1
    /\ ~icon
    /\ status = "running"
\* reached under SpecCmd, whose stacks hold elements
C38_WitnessSwap ==
    /\ Ran({<<"s">>, <<"s", "w", "a", "p">>})
    /\ before.data = <<E1, E2>>
    /\ data = <<E2, E1>>
    /\ ret = Ok(Unit)
C38_WitnessBackspace ==
    /\ call.name = "cmd_backspace"
    /\ before.text # <<>>
    /\ Len(text) = Len(before.text) - 1

\* C39: whenever the machine waits for input the display is inverted if and
\* only if the machine is in Command mode: entering Command mode inverts it,
\* and every exit that returns to the main loop (success, cancelled, bad
\* input) has restored it before the next byte is read in Entry mode.
C39_InvertedInCommand ==
    status = "running" => (inverted <=> mode = "command")
C39_Witness ==
    /\ BackInEntry
    /\ ret = Err("BadInput")
    /\ ~inverted
C39_WitnessCommand == mode = "command" /\ status = "running" /\ inverted
C39_WitnessSuccess == BackInEntry /\ ret = Ok(Unit) /\ ~inverted
C39_WitnessCancelled == BackInEntry /\ ret = Err("Cancelled") /\ ~inverted
C39_WitnessCapacity == BackInEntry /\ ret = Err("CapacityError") /\ ~inverted

(***************************************************************************)
(* SpecOperands: the main loop in Entry mode, started with the stack it    *)
(* holds after "9223372036" Enter twice, or after "9223372036" Enter, then *)
(* "9223372036" 'n' Enter: operands whose sum, difference or product does  *)
(* not fit 64 bits at the exponent -9.                                     *)
(***************************************************************************)
Big == Whole(FALSE, <<9, 2, 2, 3, 3, 7, 2, 0, 3, 6>>)
NegBig == Whole(TRUE, <<9, 2, 2, 3, 3, 7, 2, 0, 3, 6>>)
InitOperands ==
    /\ data \in {<<Big, Big>>, <<Big, NegBig>>}
    /\ InitCommon
SpecOperands == InitOperands /\ [][Next]_vars

(***************************************************************************)
(* Properties of the operator arm on operands whose arithmetic fails,      *)
(* checked under SpecOperands.                                             *)
(***************************************************************************)
\* the stack and the textbox as the pops of the operator arm find them: a
\* non-empty textbox has been parsed, pushed and cleared by then
AtPops ==
    IF before.text = <<>>
    THEN [data |-> before.data, text |-> before.text, ret |-> Ok(Unit)]
    ELSE parse_textbox(before.text, before.data)
FoundTwo(o) == Arm("operator") /\ o.ret.ok /\ Len(o.data) >= 2
OperandA(o) == o.data[Len(o.data) - 1]
OperandB(o) == o.data[Len(o.data)]
\* the sum, difference or product at the exponent -9 does not fit 64 bits
Overflows(c, a, b) ==
    \/ c \in {"+", "*"} /\ a = b /\ a \in {Big, NegBig}
    \/ c = "-" /\ {a, b} = {Big, NegBig}
DividesByZero(c, b) == c = "/" /\ b.value = IntZero
\* the operator c has found a and b, and r is what a OP b returns
ArithmeticFails(c, a, b, r) ==
    ~r.ok \/ Overflows(c, a, b) \/ DividesByZero(c, b)
\* o: the stack and the textbox at the pops
FailedOn(o) ==
    /\ FoundTwo(o)
    /\ \E r \in {apply_operator(call.arg, OperandA(o), OperandB(o))} :
           /\ ArithmeticFails(call.arg, OperandA(o), OperandB(o), r)
           /\ r \in {Err("MathOverflow"), Err("BadInput")}
           /\ data = DroppedLast(o.data, 2)
           /\ text = o.text
    /\ icon
    /\ status = "running"
    /\ mode = "entry"

\* C40: an operator that finds two operands and whose arithmetic fails
\* (overflow or division by zero) has consumed both and pushed nothing: the
\* stack is the stack the pops found without its top two elements, the
\* error icon is shown, the textbox is as the pops found it, and the loop
\* keeps running in Entry mode; the failure is MathOverflow or BadInput.
C40_ArithmeticFails ==
    Arm("operator") =>
        \A o \in {AtPops} :
            FoundTwo(o) =>
                \A r \in {apply_operator(call.arg, OperandA(o),
                                          OperandB(o))} :
                    ArithmeticFails(call.arg, OperandA(o), OperandB(o), r) =>
                        /\ data = DroppedLast(o.data, 2)
                        /\ icon
                        /\ text = o.text
                        /\ status = "running"
                        /\ mode = "entry"
                        /\ r \in {Err("MathOverflow"), Err("BadInput")}
\* Big + Big overflows with the textbox empty
C40_Witness ==
    /\ Arm("operator")
    /\ call.arg = "+"
    /\ before.text = <<>>
    /\ before.data = <<Big, Big>>
    /\ data = <<>>
    /\ icon
    /\ status = "running"
C40_WitnessProduct ==
    /\ Arm("operator") /\ call.arg = "*"
    /\ before.text = <<>> /\ before.data = <<Big, Big>>
    /\ data = <<>> /\ icon
C40_WitnessDifference ==
    /\ Arm("operator") /\ call.arg = "-"
    /\ before.text = <<>> /\ before.data = <<Big, NegBig>>
    /\ data = <<>> /\ icon
\* the divisor is the "0" typed into the textbox
C40_WitnessZeroTyped ==
    /\ Arm("operator") /\ call.arg = "/"
    /\ before.text = <<"0">>
    /\ before.data = <<Big, Big>>
    /\ data = <<Big>>
    /\ text = <<>>
    /\ icon
\* the divisor is a zero on top of the stack
C40_WitnessZeroOnStack ==
    /\ Arm("operator") /\ call.arg = "/"
    /\ before.text = <<>>
    /\ before.data = <<Big, Big, DecimalFixed_default>>
    /\ data = <<Big>>
    /\ icon
\* a quotient that does not fit 64 bits: the divisor is smaller than 1
C40_WitnessQuotient ==
    /\ Arm("operator") /\ call.arg = "/"
    /\ before.text = <<>>
    /\ Len(before.data) = 3
    /\ before.data[3].value # IntZero
    /\ FailedOn(AtPops)

====
